---- MODULE Spec2Model ----
(***************************************************************************)
(* Staged-transaction tree engine of dialecte/core: the record model, the  *)
(* staged operation log, mergeOperations, the chain's navigation and       *)
(* mutation methods and commit.                                            *)
(***************************************************************************)
EXTENDS Integers, Sequences, FiniteSets, TLC

\* ------------------------------------------------------------------ bounds
\* number of ids crypto.randomUUID() may hand out in one behaviour
MaxFresh == 2
\* cap on the number of mutation calls made on one chain
MaxCalls == 2
\* cap on the length of the logs handed to mergeOperations on its own
MaxMergeLen == 4
\* cap on the number of deepCloneChild calls made on one chain, on their own
MaxClones == 1
\* cap on the number of contexts getContext hands to the caller
MaxContexts == 2

\* ------------------------------------------------------- ids, tags, config
\* ids the imported document may use
StoreIds == {1, 2, 3}
\* ids crypto.randomUUID() hands out: never an id seen before
FreshIds == {3 + k : k \in 1..MaxFresh}
Ids == StoreIds \cup FreshIds

Tags == {"Root", "A", "AA_1"}
rootElementName == "Root"
singletonElements == {"Root", "A"}
ChildrenOf(tagName) ==
    IF tagName = "Root" THEN {"A"}
    ELSE IF tagName = "A" THEN {"AA_1"}
    ELSE {}

\* attribute a<Tag> is required (default null), b<Tag> is optional; the Root
\* has no attribute.  They are written "a" and "b" here.
AttributeSequence(tagName) == IF tagName = "Root" THEN <<>> ELSE <<"a", "b">>
AttributeRequired(name) == name = "a"
Values == {"v1", "v2"}

\* ------------------------------------------------------------ record model
NoRecord == [id |-> 0]
NoRef == [id |-> 0, tagName |-> "null"]
NoStatus == "none"

Ref(id, tagName) == [id |-> id, tagName |-> tagName]

RawRecord(id, tagName, attributes, value, parent, children) ==
    [id |-> id, tagName |-> tagName, namespace |-> "default",
     attributes |-> attributes, value |-> value,
     parent |-> parent, children |-> children]

toRawRecordAsGiven(record) == record

toRawRecord(record) ==
    [id |-> record.id, tagName |-> record.tagName,
     namespace |-> record.namespace, attributes |-> record.attributes,
     value |-> record.value, parent |-> record.parent,
     children |-> record.children]

toChainRecord(record, status) ==
    LET consolidatedStatus ==
            IF status # NoStatus THEN status
            ELSE IF "status" \in DOMAIN record THEN record.status
            ELSE "unchanged"
        raw == toRawRecord(record)
    IN [id |-> raw.id, tagName |-> raw.tagName, namespace |-> raw.namespace,
        attributes |-> raw.attributes, value |-> raw.value,
        parent |-> raw.parent, children |-> raw.children,
        status |-> consolidatedStatus]

\* --------------------------------------------------------- staged operations
CreatedOp(record) ==
    [status |-> "created", oldRecord |-> NoRecord, newRecord |-> record]
UpdatedOp(oldRecord, newRecord) ==
    [status |-> "updated", oldRecord |-> oldRecord, newRecord |-> newRecord]
DeletedOp(record) ==
    [status |-> "deleted", oldRecord |-> record, newRecord |-> NoRecord]

\* addStagedOperation pushes onto the array it is given; the result is that
\* same array after the push.
addStagedOperation(stagedOperations, status, record, oldRecord, newRecord) ==
    IF status = "created"
    THEN Append(stagedOperations, CreatedOp(toRawRecord(record)))
    ELSE IF status = "updated"
    THEN Append(stagedOperations,
                UpdatedOp(toRawRecord(oldRecord), toRawRecord(newRecord)))
    ELSE IF status = "deleted" /\ record # NoRecord
    THEN Append(stagedOperations, DeletedOp(toRawRecord(record)))
    ELSE stagedOperations

\* ------------------------------------------------------------ mergeOperations
elementId(operation) ==
    IF operation.status = "deleted" THEN operation.oldRecord.id
    ELSE operation.newRecord.id

\* operationMap is a Map: a sequence of entries in insertion order
MapIndex(operationMap, id) ==
    IF \E i \in 1..Len(operationMap) : elementId(operationMap[i]) = id
    THEN CHOOSE i \in 1..Len(operationMap) : elementId(operationMap[i]) = id
    ELSE 0

MapSet(operationMap, id, operation) ==
    LET i == MapIndex(operationMap, id)
    IN IF i = 0 THEN Append(operationMap, operation)
       ELSE [operationMap EXCEPT ![i] = operation]

MapDelete(operationMap, id) ==
    LET i == MapIndex(operationMap, id)
    IN IF i = 0 THEN operationMap
       ELSE SubSeq(operationMap, 1, i - 1)
            \o SubSeq(operationMap, i + 1, Len(operationMap))

\* created + updated: created with the final state
mergeCreatedUpdatedKeepsFirst(existing, operation) ==
    CreatedOp(existing.newRecord)

mergeCreatedUpdated(existing, operation) ==
    CreatedOp(operation.newRecord)

\* updated + updated: updated with the original old and the final state
mergeUpdatedUpdatedIncomingOld(existing, operation) ==
    UpdatedOp(operation.oldRecord, operation.newRecord)

mergeUpdatedUpdated(existing, operation) ==
    UpdatedOp(existing.oldRecord, operation.newRecord)

\* updated + deleted: deleted with the original old
mergeUpdatedDeletedIncomingOld(existing, operation) ==
    DeletedOp(operation.oldRecord)

mergeUpdatedDeleted(existing, operation) ==
    DeletedOp(existing.oldRecord)

\* created + deleted: the entry leaves the map (the element never persisted)
mergeCreatedDeletedKeepsDelete(operationMap, id, operation) ==
    MapSet(operationMap, id, operation)

mergeCreatedDeleted(operationMap, id, operation) ==
    MapDelete(operationMap, id)

\* deleted + anything: the map is left as it is (deleted is terminal)
mergeDeletedTakesIncoming(operationMap, id, operation) ==
    MapSet(operationMap, id, operation)

mergeDeleted(operationMap, id, operation) ==
    operationMap

\* one iteration of the loop of mergeOperations
mergeStep(operationMap, operation) ==
    LET id == elementId(operation)
        i == MapIndex(operationMap, id)
    IN IF i = 0 THEN MapSet(operationMap, id, operation)
       ELSE LET existing == operationMap[i]
            IN IF existing.status = "created"
               THEN IF operation.status = "updated"
                    THEN MapSet(operationMap, id,
                                mergeCreatedUpdated(existing, operation))
                    ELSE IF operation.status = "deleted"
                    THEN mergeCreatedDeleted(operationMap, id, operation)
                    ELSE operationMap
               ELSE IF existing.status = "updated"
               THEN IF operation.status = "updated"
                    THEN MapSet(operationMap, id,
                                mergeUpdatedUpdated(existing, operation))
                    ELSE IF operation.status = "deleted"
                    THEN MapSet(operationMap, id,
                                mergeUpdatedDeleted(existing, operation))
                    ELSE operationMap
               ELSE mergeDeleted(operationMap, id, operation)

RECURSIVE mergeLoop(_, _)
mergeLoop(operationMap, operations) ==
    IF operations = <<>> THEN operationMap
    ELSE mergeLoop(mergeStep(operationMap, Head(operations)), Tail(operations))

IsCreated(operation) == operation.status = "created"
IsUpdated(operation) == operation.status = "updated"
IsDeleted(operation) == operation.status = "deleted"

mergeOperations(operations) ==
    LET mergedOperations == mergeLoop(<<>>, operations)
    IN [creates |-> SelectSeq(mergedOperations, IsCreated),
        updates |-> SelectSeq(mergedOperations, IsUpdated),
        deletes |-> SelectSeq(mergedOperations, IsDeleted)]

\* ------------------------------------------------------------ the table store
\* the xmlElements table, keyed by id; NoRecord where no row exists
InitialStores ==
    { [i \in Ids |->
          IF i = 1 THEN RawRecord(1, "Root", <<>>, "", NoRef, <<>>)
          ELSE NoRecord],
      [i \in Ids |->
          IF i = 1
          THEN RawRecord(1, "Root", <<>>, "", NoRef, <<Ref(2, "A")>>)
          ELSE IF i = 2
          THEN RawRecord(2, "A", <<[name |-> "a", value |-> "v1"]>>, "",
                         Ref(1, "Root"), <<Ref(3, "AA_1")>>)
          ELSE IF i = 3
          THEN RawRecord(3, "AA_1", <<[name |-> "a", value |-> "v1"]>>, "",
                         Ref(2, "A"), <<>>)
          ELSE NoRecord] }

\* table.get({ id, tagName })
dbGetByIdAndTag(table, id, tagName) ==
    IF id \in DOMAIN table /\ table[id] # NoRecord /\ table[id].tagName = tagName
    THEN table[id] ELSE NoRecord

\* table.get(id)
dbGetById(table, id) ==
    IF id \in DOMAIN table THEN table[id] ELSE NoRecord

\* table.where('tagName').equals(tagName): rows in primary-key order
dbIdsWithTag(table, tagName) ==
    {i \in DOMAIN table : table[i] # NoRecord /\ table[i].tagName = tagName}

dbFirstWithTag(table, tagName) ==
    LET ids == dbIdsWithTag(table, tagName)
    IN IF ids = {} THEN NoRecord
       ELSE table[CHOOSE i \in ids : \A j \in ids : i <= j]

\* ------------------------------------------------------- staged-then-store
Undefined == [kind |-> "undefined"]
Thrown(message) == [kind |-> "throw", message |-> message]
Found(record, status) == [kind |-> "found", record |-> record, status |-> status]

LastIndexOf(stagedOperations, id) ==
    LET hits == {i \in 1..Len(stagedOperations) :
                    elementId(stagedOperations[i]) = id}
    IN IF hits = {} THEN 0 ELSE CHOOSE i \in hits : \A j \in hits : j <= i

getLatestStagedRecordReturnsDeleted(stagedOperations, id, tagName, throwOnDeleted) ==
    LET i == LastIndexOf(stagedOperations, id)
    IN IF i = 0 THEN Undefined
       ELSE LET operation == stagedOperations[i]
                record == IF operation.status = "deleted"
                          THEN operation.oldRecord ELSE operation.newRecord
            IN IF record.tagName # tagName
               THEN Thrown("Element tagName mismatch")
               ELSE Found(record, operation.status)

getLatestStagedRecord(stagedOperations, id, tagName, throwOnDeleted) ==
    LET i == LastIndexOf(stagedOperations, id)
    IN IF i = 0 THEN Undefined
       ELSE LET operation == stagedOperations[i]
                record == IF operation.status = "deleted"
                          THEN operation.oldRecord ELSE operation.newRecord
            IN IF operation.status = "deleted" /\ throwOnDeleted
               THEN Thrown("has been deleted")
               ELSE IF record.tagName # tagName
               THEN Thrown("Element tagName mismatch")
               ELSE Found(record, operation.status)

getRecord(id, tagName, stagedOperations, table) ==
    LET stagedRecord == getLatestStagedRecord(stagedOperations, id, tagName, FALSE)
        record == dbGetById(table, id)
    IN IF stagedRecord.kind = "throw" THEN stagedRecord
       ELSE IF stagedRecord.kind = "found"
       THEN IF stagedRecord.status = "deleted" THEN Undefined
            ELSE Found(stagedRecord.record, stagedRecord.status)
       ELSE IF record = NoRecord THEN Undefined
       ELSE IF record.tagName # tagName THEN Thrown("Element tagName mismatch")
       ELSE Found(record, "unchanged")

\* ------------------------------------------------- context transformations
\* A method awaits the context of the handle it is called on and resolves
\* or rejects the context of the handle it returns.  stagedOperations is the
\* array the two contexts share ({...context, currentFocus} copies the
\* reference), given here as it is once the method has run.
Resolved(currentFocus, stagedOperations) ==
    [ok |-> TRUE, currentFocus |-> currentFocus,
     stagedOperations |-> stagedOperations, error |-> ""]
Rejected(stagedOperations, message) ==
    [ok |-> FALSE, currentFocus |-> NoRecord,
     stagedOperations |-> stagedOperations, error |-> message]

NoId == 0

goToElementStoreFirst(context, table, tagName, id) ==
    LET isSingleton == tagName \in singletonElements
        stored == IF isSingleton /\ id = NoId
                  THEN dbFirstWithTag(table, tagName)
                  ELSE dbGetByIdAndTag(table, id, tagName)
        stagedRecord ==
            IF id # NoId /\ stored = NoRecord
            THEN getLatestStagedRecord(context.stagedOperations, id, tagName, TRUE)
            ELSE Undefined
        record == IF stored # NoRecord THEN stored
                  ELSE IF stagedRecord.kind = "found" THEN stagedRecord.record
                  ELSE NoRecord
    IN IF stagedRecord.kind = "throw"
       THEN Rejected(context.stagedOperations, stagedRecord.message)
       ELSE IF id = NoId /\ ~isSingleton
       THEN Rejected(context.stagedOperations, "requires an id parameter")
       ELSE IF record = NoRecord
       THEN Rejected(context.stagedOperations, "not found in database")
       ELSE Resolved(toChainRecord(record, NoStatus), context.stagedOperations)

goToElement(context, table, tagName, id) ==
    LET isSingleton == tagName \in singletonElements
        stagedRecord ==
            IF id # NoId
            THEN getLatestStagedRecord(context.stagedOperations, id, tagName, TRUE)
            ELSE Undefined
        staged == IF stagedRecord.kind = "found" /\ stagedRecord.status # "deleted"
                  THEN stagedRecord.record ELSE NoRecord
        record == IF staged # NoRecord THEN staged
                  ELSE IF isSingleton /\ id = NoId
                  THEN dbFirstWithTag(table, tagName)
                  ELSE dbGetByIdAndTag(table, id, tagName)
    IN IF stagedRecord.kind = "throw"
       THEN Rejected(context.stagedOperations, stagedRecord.message)
       ELSE IF staged = NoRecord /\ id = NoId /\ ~isSingleton
       THEN Rejected(context.stagedOperations, "requires an id parameter")
       ELSE IF record = NoRecord
       THEN Rejected(context.stagedOperations, "not found in database")
       ELSE IF record.tagName # tagName
       THEN Rejected(context.stagedOperations, "Element tagName mismatch")
       ELSE Resolved(toChainRecord(record, NoStatus), context.stagedOperations)

goToParentFromStore(context, table) ==
    LET parentRef == context.currentFocus.parent
        record == dbGetByIdAndTag(table, parentRef.id, parentRef.tagName)
    IN IF parentRef = NoRef
       THEN Rejected(context.stagedOperations,
                     "Current focus parent should be defined here")
       ELSE IF record = NoRecord
       THEN Rejected(context.stagedOperations,
                     "Parent record should be found in database")
       ELSE Resolved(toChainRecord(record, NoStatus), context.stagedOperations)

goToParent(context, table) ==
    LET parentRef == context.currentFocus.parent
        stagedParentRecord ==
            getLatestStagedRecord(context.stagedOperations, parentRef.id,
                                  parentRef.tagName, TRUE)
        record == dbGetByIdAndTag(table, parentRef.id, parentRef.tagName)
    IN IF parentRef = NoRef
       THEN Rejected(context.stagedOperations,
                     "Current focus parent should be defined here")
       ELSE IF stagedParentRecord.kind = "throw"
       THEN Rejected(context.stagedOperations, stagedParentRecord.message)
       ELSE IF stagedParentRecord.kind = "found"
       THEN Resolved(toChainRecord(stagedParentRecord.record, NoStatus),
                     context.stagedOperations)
       ELSE IF record = NoRecord
       THEN Rejected(context.stagedOperations,
                     "Parent record should be found in database")
       ELSE Resolved(toChainRecord(record, NoStatus), context.stagedOperations)

\* ------------------------------------------------------------ standardizeRecord
\* attributesArray.find((attribute) => attribute.name === attributeName)
FindAttribute(attributesArray, attributeName) ==
    LET hits == {i \in 1..Len(attributesArray) :
                    attributesArray[i].name = attributeName}
    IN IF hits = {} THEN 0 ELSE CHOOSE i \in hits : \A j \in hits : i <= j

standardizedAttributes(tagName, attributesArray) ==
    LET sequence == AttributeSequence(tagName)
        one(attributeName) ==
            LET i == FindAttribute(attributesArray, attributeName)
            IN IF i # 0 /\ attributesArray[i].value # ""
               THEN <<[name |-> attributeName, value |-> attributesArray[i].value]>>
               ELSE IF AttributeRequired(attributeName)
               THEN <<[name |-> attributeName, value |-> ""]>>
               ELSE <<>>
        F[k \in 0..Len(sequence)] ==
            IF k = 0 THEN <<>> ELSE F[k - 1] \o one(sequence[k])
    IN F[Len(sequence)]

NoValue == "undefined"

standardizeRecord(id, tagName, attributes, value) ==
    RawRecord(id, tagName, standardizedAttributes(tagName, attributes),
              IF value = NoValue THEN "" ELSE value, NoRef, <<>>)

\* ---------------------------------------------------------------- addChild
createAndStageChildParentFirst(record, context) ==
    LET childRecord ==
            [record EXCEPT
                !.parent = Ref(context.currentFocus.id, context.currentFocus.tagName),
                !.children = <<>>]
        updatedParent ==
            [context.currentFocus EXCEPT
                !.children = Append(context.currentFocus.children,
                                    Ref(childRecord.id, childRecord.tagName))]
        staged1 == addStagedOperation(context.stagedOperations, "updated",
                                      NoRecord, context.currentFocus,
                                      updatedParent)
        staged2 == addStagedOperation(staged1, "created", childRecord,
                                      NoRecord, NoRecord)
    IN [childRecord |-> toChainRecord(childRecord, "created"),
        updatedParent |-> toChainRecord(updatedParent, "updated"),
        stagedOperations |-> staged2]

createAndStageChild(record, context) ==
    LET childRecord ==
            [record EXCEPT
                !.parent = Ref(context.currentFocus.id, context.currentFocus.tagName),
                !.children = <<>>]
        staged1 == addStagedOperation(context.stagedOperations, "created",
                                      childRecord, NoRecord, NoRecord)
        updatedParent ==
            [context.currentFocus EXCEPT
                !.children = Append(context.currentFocus.children,
                                    Ref(childRecord.id, childRecord.tagName))]
        staged2 == addStagedOperation(staged1, "updated", NoRecord,
                                      context.currentFocus, updatedParent)
    IN [childRecord |-> toChainRecord(childRecord, "created"),
        updatedParent |-> toChainRecord(updatedParent, "updated"),
        stagedOperations |-> staged2]

addChildFocusesParent(context, id, tagName, attributes, value, setFocus) ==
    LET standardizedRecord == standardizeRecord(id, tagName, attributes, value)
        staged == createAndStageChild(standardizedRecord, context)
    IN Resolved(staged.updatedParent, staged.stagedOperations)

addChild(context, id, tagName, attributes, value, setFocus) ==
    LET standardizedRecord == standardizeRecord(id, tagName, attributes, value)
        staged == createAndStageChild(standardizedRecord, context)
    IN IF setFocus
       THEN Resolved(staged.childRecord, staged.stagedOperations)
       ELSE Resolved(staged.updatedParent, staged.stagedOperations)

\* ------------------------------------------------------------------ update
NoAttributes == <<[name |-> "undefined", value |-> "undefined"]>>

HasName(attributesArray, name) ==
    \E i \in 1..Len(attributesArray) : attributesArray[i].name = name

updateReplacesAttributes(context, attributes, value) ==
    LET currentElement == context.currentFocus
        updatedElement ==
            [currentElement EXCEPT
                !.attributes = IF attributes = NoAttributes
                               THEN currentElement.attributes ELSE attributes,
                !.value = IF value # NoValue THEN value ELSE currentElement.value]
    IN Resolved(toChainRecord(updatedElement, "updated"),
                addStagedOperation(context.stagedOperations, "updated", NoRecord,
                                   currentElement, updatedElement))

update(context, attributes, value) ==
    LET currentElement == context.currentFocus
        unchangedAttributes ==
            LET keep(oldAttribute) == ~HasName(attributes, oldAttribute.name)
            IN SelectSeq(currentElement.attributes, keep)
        updatedAttributes ==
            IF attributes = NoAttributes THEN currentElement.attributes
            ELSE unchangedAttributes \o attributes
        updatedElement ==
            [currentElement EXCEPT
                !.attributes = updatedAttributes,
                !.value = IF value # NoValue THEN value ELSE currentElement.value]
    IN Resolved(toChainRecord(updatedElement, "updated"),
                addStagedOperation(context.stagedOperations, "updated", NoRecord,
                                   currentElement, updatedElement))

\* ------------------------------------------------------------------ delete
\* the loop of removeAndStageChildren over currentChild.children
RECURSIVE removeAndStageChildren(_, _, _)
removeAndStageChildren(stagedOperations, table, children) ==
    IF children = <<>>
    THEN [ok |-> TRUE, stagedOperations |-> stagedOperations, error |-> ""]
    ELSE LET childRef == Head(children)
             childRecord == getRecord(childRef.id, childRef.tagName,
                                      stagedOperations, table)
             below == IF Len(childRecord.record.children) > 0
                      THEN removeAndStageChildren(stagedOperations, table,
                                                  childRecord.record.children)
                      ELSE [ok |-> TRUE, stagedOperations |-> stagedOperations,
                            error |-> ""]
         IN IF childRecord.kind = "throw"
            THEN [ok |-> FALSE, stagedOperations |-> stagedOperations,
                  error |-> childRecord.message]
            ELSE IF childRecord.kind = "undefined"
            THEN removeAndStageChildren(stagedOperations, table, Tail(children))
            ELSE IF ~below.ok THEN below
            ELSE removeAndStageChildren(
                     addStagedOperation(below.stagedOperations, "deleted",
                                        childRecord.record, NoRecord, NoRecord),
                     table, Tail(children))

RemoveRefKeepsAll(children, id) ==
    children

RemoveRef(children, id) ==
    LET keep(child) == child.id # id
    IN SelectSeq(children, keep)

\* without the assert on parentRef the root would be handed back as focus
updateAndStageParentAllowsRoot(context, stagedOperations, table) ==
    LET parentRef == context.currentFocus.parent
        parentRecord == getRecord(parentRef.id, parentRef.tagName,
                                  stagedOperations, table)
        updatedParent ==
            [parentRecord.record EXCEPT
                !.children = RemoveRef(parentRecord.record.children,
                                       context.currentFocus.id)]
    IN IF parentRef = NoRef
       THEN Resolved(context.currentFocus, stagedOperations)
       ELSE IF parentRecord.kind = "throw"
       THEN Rejected(stagedOperations, parentRecord.message)
       ELSE IF parentRecord.kind = "undefined"
       THEN Rejected(stagedOperations, "Parent record not found")
       ELSE Resolved(toChainRecord(updatedParent, "updated"),
                     addStagedOperation(stagedOperations, "updated", NoRecord,
                                        parentRecord.record, updatedParent))

updateAndStageParent(context, stagedOperations, table) ==
    LET parentRef == context.currentFocus.parent
        parentRecord == getRecord(parentRef.id, parentRef.tagName,
                                  stagedOperations, table)
        updatedParent ==
            [parentRecord.record EXCEPT
                !.children = RemoveRef(parentRecord.record.children,
                                       context.currentFocus.id)]
    IN IF parentRef = NoRef
       THEN Rejected(stagedOperations, "Cannot delete root element")
       ELSE IF parentRecord.kind = "throw"
       THEN Rejected(stagedOperations, parentRecord.message)
       ELSE IF parentRecord.kind = "undefined"
       THEN Rejected(stagedOperations, "Parent record not found")
       ELSE Resolved(toChainRecord(updatedParent, "updated"),
                     addStagedOperation(stagedOperations, "updated", NoRecord,
                                        parentRecord.record, updatedParent))

deleteElementKeepsChildren(context, table) ==
    updateAndStageParent(context,
        addStagedOperation(context.stagedOperations, "deleted",
                           context.currentFocus, NoRecord, NoRecord),
        table)

deleteElement(context, table) ==
    LET currentElement == context.currentFocus
        staged1 == addStagedOperation(context.stagedOperations, "deleted",
                                      currentElement, NoRecord, NoRecord)
        staged2 == removeAndStageChildren(staged1, table, currentElement.children)
    IN IF ~staged2.ok THEN Rejected(staged2.stagedOperations, staged2.error)
       ELSE updateAndStageParent(context, staged2.stagedOperations, table)

\* ------------------------------------------------------------ deepCloneChild
\* a method called on a handle whose context rejected rejects the same way
Then(context, next) == IF context.ok THEN next ELSE context

\* the used-th id crypto.randomUUID() hands out
FreshId(used) == 3 + used

TreeRecord(id, tagName, attributes, value, tree) ==
    [id |-> id, tagName |-> tagName, attributes |-> attributes,
     value |-> value, tree |-> tree]

RECURSIVE TreeSize(_)
TreeSize(record) ==
    LET F[k \in 0..Len(record.tree)] ==
            IF k = 0 THEN 0 ELSE F[k - 1] + TreeSize(record.tree[k])
    IN 1 + F[Len(record.tree)]

\* dialecteConfig.hooks.beforeClone: NoHook when the configuration has none
\* (hooks: {}); a configured hook is the set of nodes it answers
\* shouldBeCloned: false for and the set of nodes whose attributes it rewrites
NoHook == [configured |-> FALSE, skipped |-> {}, rewritten |-> {}]
BeforeCloneHook(skipped, rewritten) ==
    [configured |-> TRUE, skipped |-> skipped, rewritten |-> rewritten]
RewrittenAttributes == <<[name |-> "a", value |-> "v2"]>>

beforeCloneAlwaysClones(hook, record) ==
    [shouldBeCloned |-> TRUE, transformedRecord |-> record]

beforeClone(hook, record) ==
    [shouldBeCloned |-> record.id \notin hook.skipped,
     transformedRecord |->
        IF record.id \in hook.rewritten
        THEN [record EXCEPT !.attributes = RewrittenAttributes]
        ELSE record]

RECURSIVE addChildRecursively(_, _, _, _, _, _)
RECURSIVE cloneChildren(_, _, _, _, _, _)
addChildRecursively(hook, parentChain, table, clonedRecordRootId, childRecord, used) ==
    LET result ==
            IF hook.configured THEN beforeClone(hook, childRecord)
            ELSE [shouldBeCloned |-> TRUE, transformedRecord |-> childRecord]
        transformedChildRecord == result.transformedRecord
        childChain ==
            Then(parentChain,
                 addChild(parentChain, FreshId(used + 1),
                          transformedChildRecord.tagName,
                          transformedChildRecord.attributes,
                          transformedChildRecord.value, TRUE))
        after == cloneChildren(hook, childChain, table, clonedRecordRootId,
                               transformedChildRecord.tree, used + 1)
    IN IF ~result.shouldBeCloned
       THEN [context |-> parentChain, used |-> used]
       ELSE IF childRecord.id # clonedRecordRootId
       THEN [context |-> Then(after.context, goToParent(after.context, table)),
             used |-> after.used]
       ELSE after

cloneChildren(hook, currentChain, table, clonedRecordRootId, tree, used) ==
    IF Len(tree) = 0 THEN [context |-> currentChain, used |-> used]
    ELSE LET first == addChildRecursively(hook, currentChain, table,
                                          clonedRecordRootId, Head(tree), used)
         IN cloneChildren(hook, first.context, table, clonedRecordRootId,
                          Tail(tree), first.used)

deepCloneChild(hook, context, table, record, setFocus, used) ==
    LET ending == addChildRecursively(hook, context, table, record.id, record,
                                      used)
    IN IF setFocus THEN ending.context
       ELSE Then(ending.context, goToParent(ending.context, table))

\* ------------------------------------------------------------------ commit
RECURSIVE bulkPut(_, _)
bulkPut(table, records) ==
    IF records = <<>> THEN table
    ELSE bulkPut([table EXCEPT ![Head(records).id] = Head(records)],
                 Tail(records))

RECURSIVE bulkDelete(_, _)
bulkDelete(table, ids) ==
    IF ids = <<>> THEN table
    ELSE bulkDelete([table EXCEPT ![Head(ids)] = NoRecord], Tail(ids))

\* bulkAdd rejects (ConstraintError) when a key is already in the table
bulkAddCollides(table, records) ==
    \/ \E i \in 1..Len(records) : table[records[i].id] # NoRecord
    \/ \E i, j \in 1..Len(records) : i # j /\ records[i].id = records[j].id

NewRecords(operations) == [i \in 1..Len(operations) |-> operations[i].newRecord]
OldIdsOfNewRecords(operations) ==
    [i \in 1..Len(operations) |-> operations[i].newRecord.id]

OldIds(operations) == [i \in 1..Len(operations) |-> operations[i].oldRecord.id]

FailPoints == {"none", "bulkAdd", "bulkPut", "bulkDelete"}

\* the body handed to databaseInstance.transaction('rw', ...): the table as
\* each step leaves it, and the step that rejected ("" when none did).
\* failAt names the step the store makes fail (quota, I/O).
transactionBody(table, merged, failAt) ==
    LET addFails == merged.creates # <<>>
                    /\ (failAt = "bulkAdd"
                        \/ bulkAddCollides(table, NewRecords(merged.creates)))
        afterAdd == IF merged.creates # <<>> /\ ~addFails
                    THEN bulkPut(table, NewRecords(merged.creates)) ELSE table
        putFails == merged.updates # <<>> /\ failAt = "bulkPut"
        afterPut == IF merged.updates # <<>> /\ ~putFails
                    THEN bulkPut(afterAdd, NewRecords(merged.updates))
                    ELSE afterAdd
        deleteFails == merged.deletes # <<>> /\ failAt = "bulkDelete"
        afterDelete == IF merged.deletes # <<>> /\ ~deleteFails
                       THEN bulkDelete(afterPut, OldIds(merged.deletes))
                       ELSE afterPut
    IN IF addFails
       THEN [failed |-> "bulkAdd", table |-> afterAdd,
             error |-> IF failAt = "bulkAdd" THEN "StoreError"
                       ELSE "ConstraintError"]
       ELSE IF putFails
       THEN [failed |-> "bulkPut", table |-> afterPut, error |-> "StoreError"]
       ELSE IF deleteFails
       THEN [failed |-> "bulkDelete", table |-> afterDelete,
             error |-> "StoreError"]
       ELSE [failed |-> "", table |-> afterDelete, error |-> ""]

\* a Dexie transaction whose body rejects is aborted: no write is kept
transactionKeepsPartialWrites(table, merged, failAt) ==
    transactionBody(table, merged, failAt)

transaction(table, merged, failAt) ==
    LET body == transactionBody(table, merged, failAt)
    IN IF body.failed # "" THEN [body EXCEPT !.table = table] ELSE body

NoError == [errorKey |-> "", originalError |-> ""]
NoMerge == [creates |-> <<>>, updates |-> <<>>, deletes |-> <<>>]

\* commit works on structuredClone(await contextPromise): the clone's log is
\* the one emptied after success, `remaining` is the log of the chain's own
\* context once commit has settled.
\* `await contextPromise` stands before the try block: on a handle whose
\* context rejected, commit rejects with that error as it is and the store
\* is not reached.
commit(context, table, failAt) ==
    LET merged == mergeOperations(context.stagedOperations)
        result == transaction(table, merged, failAt)
    IN IF ~context.ok
       THEN [ok |-> FALSE, table |-> table, merged |-> NoMerge,
             remaining |-> context.stagedOperations,
             error |-> [errorKey |-> "", originalError |-> context.error]]
       ELSE IF result.failed = ""
       THEN [ok |-> TRUE, table |-> result.table, merged |-> merged,
             remaining |-> context.stagedOperations, error |-> NoError]
       ELSE [ok |-> FALSE, table |-> result.table, merged |-> merged,
             remaining |-> context.stagedOperations,
             error |-> [errorKey |-> "DATABASE_COMMIT_ERROR",
                        originalError |-> result.error]]

\* structuredClone of the context: an equal value that shares nothing
getContext(context) ==
    IF ~context.ok THEN context
    ELSE [currentFocus |-> context.currentFocus,
          stagedOperations |-> context.stagedOperations]

\* ------------------------------------------------------------ entry points
fromRoot(table) ==
    LET numberOfRootElements == Cardinality(dbIdsWithTag(table, rootElementName))
        rootRecord == dbFirstWithTag(table, rootElementName)
    IN IF numberOfRootElements # 1
       THEN Rejected(<<>>, "Expected exactly one root element")
       ELSE Resolved(toChainRecord(rootRecord, NoStatus), <<>>)

fromElement(table, tagName, id) ==
    LET isSingleton == tagName \in singletonElements
        record == IF isSingleton /\ id = NoId
                  THEN dbFirstWithTag(table, tagName)
                  ELSE dbGetByIdAndTag(table, id, tagName)
    IN IF id = NoId /\ ~isSingleton
       THEN Rejected(<<>>, "requires an id parameter")
       ELSE IF record = NoRecord THEN Rejected(<<>>, "not found in database")
       ELSE Resolved(toChainRecord(record, NoStatus), <<>>)

\* ----------------------------------------------------------- record queries
\* attribute?.value || ''
getAttributeValueByName(attributes, name) ==
    LET i == FindAttribute(attributes, name)
    IN IF i = 0 THEN "" ELSE attributes[i].value

\* An attribute filter is the entries of the filter object, in key order:
\* the expected value of a name is undefined, one value or an array of values
ExpectUndefined(name) == [name |-> name, kind |-> "undefined", values |-> <<>>]
ExpectOne(name, value) == [name |-> name, kind |-> "one", values |-> <<value>>]
ExpectSome(name, values) == [name |-> name, kind |-> "array", values |-> values]

matchesAttributeFilter(record, attributeFilter) ==
    \A k \in 1..Len(attributeFilter) :
       LET expectedValues == attributeFilter[k]
           actualValue == getAttributeValueByName(record.attributes,
                                                  expectedValues.name)
       IN \/ expectedValues.kind = "undefined"
          \/ /\ actualValue # ""
             /\ IF expectedValues.kind = "array"
                THEN \E j \in 1..Len(expectedValues.values) :
                        actualValue = expectedValues.values[j]
                ELSE actualValue = expectedValues.values[1]

RECURSIVE SortedIds(_)
SortedIds(ids) ==
    IF ids = {} THEN <<>>
    ELSE LET first == CHOOSE i \in ids : \A j \in ids : i <= j
         IN <<first>> \o SortedIds(ids \ {first})

\* recordsById is a Map: a sequence of records in insertion order
RecordIndex(recordsById, id) ==
    IF \E i \in 1..Len(recordsById) : recordsById[i].id = id
    THEN CHOOSE i \in 1..Len(recordsById) : recordsById[i].id = id
    ELSE 0

RecordSet(recordsById, record) ==
    LET i == RecordIndex(recordsById, record.id)
    IN IF i = 0 THEN Append(recordsById, record)
       ELSE [recordsById EXCEPT ![i] = record]

RecordDelete(recordsById, id) ==
    LET i == RecordIndex(recordsById, id)
    IN IF i = 0 THEN recordsById
       ELSE SubSeq(recordsById, 1, i - 1)
            \o SubSeq(recordsById, i + 1, Len(recordsById))

\* fetchRecords with type 'chain': the rows of the tag, then every staged
\* operation of the tag in the order of the log
fetchRecords(tagName, stagedOperations, table) ==
    LET ids == SortedIds(dbIdsWithTag(table, tagName))
        dbRecords == [k \in 1..Len(ids) |-> toChainRecord(table[ids[k]], NoStatus)]
        step(recordsById, operation) ==
            LET isNewOrUpdated == operation.status \in {"created", "updated"}
                afterSet ==
                    IF isNewOrUpdated /\ operation.newRecord.tagName = tagName
                    THEN RecordSet(recordsById,
                                   toChainRecord(operation.newRecord,
                                                 operation.status))
                    ELSE recordsById
            IN IF operation.status = "deleted"
                  /\ operation.oldRecord.tagName = tagName
               THEN RecordDelete(afterSet, operation.oldRecord.id)
               ELSE afterSet
        F[k \in 0..Len(stagedOperations)] ==
            IF k = 0 THEN dbRecords ELSE step(F[k - 1], stagedOperations[k])
    IN F[Len(stagedOperations)]

findByAttributes(context, table, tagName, attributes) ==
    LET matching(candidateRecord) ==
            matchesAttributeFilter(candidateRecord, attributes)
    IN SelectSeq(fetchRecords(tagName, context.stagedOperations, table), matching)

\* filters: the entries of the filters object, [tagName, attributes] in key
\* order; the result has one entry per key
findChildren(context, table, filters) ==
    [k \in 1..Len(filters) |->
        LET candidates == findByAttributes(context, table, filters[k].tagName,
                                           filters[k].attributes)
            isChild(candidate) ==
                /\ candidate.parent.tagName = context.currentFocus.tagName
                /\ candidate.parent.id = context.currentFocus.id
        IN [tagName |-> filters[k].tagName,
            records |-> SelectSeq(candidates, isChild)]]

\* ------------------------------------------------------------ findDescendants
\* A descendants filter is nested: {tagName, attributes?, descendant?}
NoFilter == [tagName |-> "undefined"]
DescendantsFilter(tagName, attributes, descendant) ==
    [tagName |-> tagName, attributes |-> attributes, descendant |-> descendant]

RECURSIVE filterToPath(_)
filterToPath(filter) ==
    <<[tagName |-> filter.tagName, attributes |-> filter.attributes]>>
    \o (IF filter.descendant # NoFilter THEN filterToPath(filter.descendant)
        ELSE <<>>)

\* new Set(extractTags(filter)): the tags in the order of their first occurrence
RECURSIVE extractTags(_)
extractTags(filter) ==
    <<filter.tagName>>
    \o (IF filter.descendant # NoFilter THEN extractTags(filter.descendant)
        ELSE <<>>)

SetOfTags(tags) ==
    LET F[k \in 0..Len(tags)] ==
            IF k = 0 THEN <<>>
            ELSE IF \E j \in 1..Len(F[k - 1]) : F[k - 1][j] = tags[k]
            THEN F[k - 1] ELSE Append(F[k - 1], tags[k])
    IN F[Len(tags)]

\* getRecord with type 'chain'
getChainRecord(ref, context, table) ==
    LET chain(got) ==
            IF got.kind = "found"
            THEN Found(toChainRecord(got.record,
                                     IF got.status = "unchanged" THEN NoStatus
                                     ELSE got.status), got.status)
            ELSE got
    IN chain(getRecord(ref.id, ref.tagName, context.stagedOperations, table))

Invalid == [valid |-> FALSE, ancestors |-> <<>>, thrown |-> ""]
Valid(ancestors) == [valid |-> TRUE, ancestors |-> ancestors, thrown |-> ""]
Failed(message) == [valid |-> FALSE, ancestors |-> <<>>, thrown |-> message]

IsFocus(ref, focusRecord) ==
    ref.id = focusRecord.id /\ ref.tagName = focusRecord.tagName

RECURSIVE collectChainFrom(_, _, _, _, _)
collectChainFrom(chain, current, toFocus, context, table) ==
    LET next(got) ==
            IF got.kind = "throw" THEN Failed(got.message)
            ELSE IF got.kind = "found"
            THEN collectChainFrom(Append(chain, got.record), got.record.parent,
                                  toFocus, context, table)
            ELSE Valid(chain)
    IN IF current = NoRef \/ IsFocus(current, toFocus) THEN Valid(chain)
       ELSE next(getChainRecord(current, context, table))

collectChain(from, toFocus, context, table) ==
    collectChainFrom(<<from>>, from.parent, toFocus, context, table)

RECURSIVE walkUntilFocus(_, _, _, _, _)
walkUntilFocus(current, candidate, focusRecord, context, table) ==
    LET next(got) ==
            IF got.kind = "throw" THEN Failed(got.message)
            ELSE IF got.kind # "found" THEN Invalid
            ELSE walkUntilFocus(got.record.parent, candidate, focusRecord,
                                context, table)
    IN IF current = NoRef THEN Invalid
       ELSE IF IsFocus(current, focusRecord)
       THEN collectChain(candidate, focusRecord, context, table)
       ELSE next(getRecord(current.id, current.tagName,
                           context.stagedOperations, table))

validateSimple(candidate, focusRecord, context, table) ==
    walkUntilFocus(candidate.parent, candidate, focusRecord, context, table)

NotFound == [found |-> FALSE, record |-> NoRecord, next |-> NoRef, thrown |-> ""]

findMatchingLevelNoSkip(cursor, expected, context, table) ==
    IF cursor = NoRef \/ cursor.tagName # expected.tagName THEN NotFound
    ELSE LET got == getChainRecord(cursor, context, table)
         IN IF got.kind = "throw" THEN [NotFound EXCEPT !.thrown = got.message]
            ELSE IF got.kind # "found" THEN NotFound
            ELSE IF ~matchesAttributeFilter(got.record, expected.attributes)
            THEN NotFound
            ELSE [found |-> TRUE, record |-> got.record,
                  next |-> got.record.parent, thrown |-> ""]

RECURSIVE findMatchingLevel(_, _, _, _)
findMatchingLevel(cursor, expected, context, table) ==
    LET skip(got) ==
            IF got.kind = "throw" THEN [NotFound EXCEPT !.thrown = got.message]
            ELSE findMatchingLevel(IF got.kind = "found" THEN got.record.parent
                                   ELSE NoRef,
                                   expected, context, table)
        match(got) ==
            IF got.kind = "throw" THEN [NotFound EXCEPT !.thrown = got.message]
            ELSE IF got.kind # "found" THEN NotFound
            ELSE IF ~matchesAttributeFilter(got.record, expected.attributes)
            THEN NotFound
            ELSE [found |-> TRUE, record |-> got.record,
                  next |-> got.record.parent, thrown |-> ""]
    IN IF cursor = NoRef THEN NotFound
       ELSE IF cursor.tagName # expected.tagName
       THEN skip(getRecord(cursor.id, cursor.tagName,
                           context.stagedOperations, table))
       ELSE match(getChainRecord(cursor, context, table))

\* the levels of path are walked from the last to the first
RECURSIVE walkPath(_, _, _, _, _, _, _)
walkPath(i, current, ancestors, path, focusRecord, context, table) ==
    LET next(match) ==
            IF match.thrown # "" THEN Failed(match.thrown)
            ELSE IF ~match.found THEN Invalid
            ELSE walkPath(i - 1, match.next, Append(ancestors, match.record),
                          path, focusRecord, context, table)
    IN IF i = 0
       THEN [valid |-> IsFocus(current, focusRecord), ancestors |-> ancestors,
             thrown |-> ""]
       ELSE next(findMatchingLevel(current, path[i], context, table))

validatePath(candidate, focusRecord, context, table, path) ==
    walkPath(Len(path), candidate.parent, <<candidate>>, path, focusRecord,
             context, table)

validate(candidate, focusRecord, context, table, path) ==
    IF candidate.id = focusRecord.id THEN Invalid
    ELSE IF path # <<>>
    THEN validatePath(candidate, focusRecord, context, table, path)
    ELSE validateSimple(candidate, focusRecord, context, table)

\* collected is a Map from tag to records: a sequence of [tagName, records]
\* in the order the tags were first collected
TagIndex(collected, tagName) ==
    IF \E i \in 1..Len(collected) : collected[i].tagName = tagName
    THEN CHOOSE i \in 1..Len(collected) : collected[i].tagName = tagName
    ELSE 0

collectFromAncestors(ancestors, tags, collected) ==
    LET push(map, ancestor) ==
            LET i == TagIndex(map, ancestor.tagName)
            IN IF ~\E j \in 1..Len(tags) : tags[j] = ancestor.tagName THEN map
               ELSE IF i = 0
               THEN Append(map, [tagName |-> ancestor.tagName,
                                 records |-> <<ancestor>>])
               ELSE [map EXCEPT ![i].records = Append(@, ancestor)]
        F[k \in 0..Len(ancestors)] ==
            IF k = 0 THEN collected ELSE push(F[k - 1], ancestors[k])
    IN F[Len(ancestors)]

deduplicateKeepsAll(collected) == collected

deduplicateByTag(collected) ==
    [i \in 1..Len(collected) |->
        LET records == collected[i].records
            uniqueMap[k \in 0..Len(records)] ==
                IF k = 0 THEN <<>> ELSE RecordSet(uniqueMap[k - 1], records[k])
        IN [tagName |-> collected[i].tagName,
            records |-> uniqueMap[Len(records)]]]

mapToResultOfCollected(collected, tags) == collected

mapToResult(collected, tags) ==
    [k \in 1..Len(tags) |->
        LET i == TagIndex(collected, tags[k])
        IN [tagName |-> tags[k],
            records |-> IF i = 0 THEN <<>> ELSE collected[i].records]]

validateDescendants(context, table, candidates, focusRecord, path, collectTags) ==
    LET collect(results) ==
            LET F[k \in 0..Len(candidates)] ==
                    IF k = 0 THEN <<>>
                    ELSE IF results[k].valid
                    THEN collectFromAncestors(results[k].ancestors, collectTags,
                                              F[k - 1])
                    ELSE F[k - 1]
                thrown == {k \in 1..Len(candidates) : results[k].thrown # ""}
            IN IF thrown # {}
               THEN Thrown(results[CHOOSE k \in thrown :
                                      \A j \in thrown : k <= j].thrown)
               ELSE mapToResult(deduplicateByTag(F[Len(candidates)]),
                                collectTags)
    IN collect([k \in 1..Len(candidates) |->
                  validate(candidates[k], focusRecord, context, table, path)])

findFiltered(context, table, filter) ==
    LET collectTags == SetOfTags(extractTags(filter))
        path == filterToPath(filter)
        deepest == path[Len(path)]
        ancestors == SubSeq(path, 1, Len(path) - 1)
        candidates == findByAttributes(context, table, deepest.tagName,
                                       deepest.attributes)
    IN validateDescendants(context, table, candidates, context.currentFocus,
                           ancestors, collectTags)

\* ----------------------------------------------------------------- getTree
\* an optional parameter: None when the caller leaves it out
None == {}
Some(value) == {value}

NoInclude == [tagName |-> "undefined", attributes |-> <<>>, children |-> <<>>]
IncludeFilter(tagName, attributes, children) ==
    [tagName |-> tagName, attributes |-> attributes, children |-> children]
ExcludeFilter(tagName, attributes, scope) ==
    [tagName |-> tagName, attributes |-> attributes, scope |-> scope]
GetTreeParams(include, exclude, unwrap) ==
    [include |-> include, exclude |-> exclude, unwrap |-> unwrap]

toTreeRecord(record, status, tree) ==
    LET consolidatedTree ==
            IF tree # None THEN CHOOSE given \in tree : TRUE
            ELSE IF "tree" \in DOMAIN record THEN record.tree
            ELSE <<>>
        chain == toChainRecord(record, status)
    IN [id |-> chain.id, tagName |-> chain.tagName,
        namespace |-> chain.namespace, attributes |-> chain.attributes,
        value |-> chain.value, parent |-> chain.parent,
        children |-> chain.children, status |-> chain.status,
        tree |-> consolidatedTree]

matchesFilter(record, filter) ==
    /\ record.tagName = filter.tagName
    /\ matchesAttributeFilter(record, filter.attributes)

ScopeOf(filter) == IF filter.scope = "undefined" THEN "self" ELSE filter.scope

shouldStopTraversalNever(record, excludeFilters) == FALSE

shouldStopTraversal(record, excludeFilters) ==
    \E k \in 1..Len(excludeFilters) :
       /\ ScopeOf(excludeFilters[k]) = "children"
       /\ matchesFilter(record, excludeFilters[k])

shouldExcludeChildNever(record, excludeFilters) == FALSE

shouldExcludeChild(record, excludeFilters) ==
    \E k \in 1..Len(excludeFilters) :
       /\ ScopeOf(excludeFilters[k]) = "self"
       /\ matchesFilter(record, excludeFilters[k])

\* what a step of the traversal settles with: the value it resolves with, or
\* the message it rejects with
Built(value) == [thrown |-> "", value |-> value]
Broken(message) == [thrown |-> message, value |-> <<>>]
FirstThrown(results) ==
    LET failed == {k \in 1..Len(results) : results[k].thrown # ""}
    IN IF failed = {} THEN ""
       ELSE results[CHOOSE k \in failed : \A j \in failed : k <= j].thrown

fetchChildren(record, context, table) ==
    LET settle(got) ==
            IF got.kind = "throw" THEN Broken(got.message) ELSE Built(got)
        IsFound(child) == child.value.kind = "found"
        records(found) == [k \in 1..Len(found) |-> found[k].value.record]
        all(childRecords, thrown) ==
            IF thrown # "" THEN Broken(thrown)
            ELSE Built(records(SelectSeq(childRecords, IsFound)))
        filter(childRecords) == all(childRecords, FirstThrown(childRecords))
    IN filter([k \in 1..Len(record.children) |->
                 settle(getChainRecord(record.children[k], context, table))])

findMatchingIncludeBranch(child, branches) ==
    LET matching == {k \in 1..Len(branches) : matchesFilter(child, branches[k])}
    IN IF matching = {} THEN NoInclude
       ELSE branches[CHOOSE k \in matching : \A j \in matching : k <= j]

matchChildrenKeepsAll(children, currentIncludeFilter) ==
    [k \in 1..Len(children) |->
        [record |-> children[k], includeFilter |-> NoInclude]]

matchChildrenWithIncludeFilters(children, currentIncludeFilter) ==
    LET Matches(child) == matchesFilter(child, currentIncludeFilter)
        matched(matchingChildren) ==
            IF Len(currentIncludeFilter.children) > 0
            THEN [k \in 1..Len(matchingChildren) |->
                    [record |-> matchingChildren[k],
                     includeFilter |->
                        findMatchingIncludeBranch(matchingChildren[k],
                                                  currentIncludeFilter.children)]]
            ELSE [k \in 1..Len(matchingChildren) |->
                    [record |-> matchingChildren[k],
                     includeFilter |-> NoInclude]]
    IN IF currentIncludeFilter = NoInclude
       THEN [k \in 1..Len(children) |->
               [record |-> children[k], includeFilter |-> NoInclude]]
       ELSE matched(SelectSeq(children, Matches))

fetchAndFilterChildren(record, context, table, currentIncludeFilter, excludeFilters) ==
    LET Kept(child) == ~shouldExcludeChild(child, excludeFilters)
        filter(children) ==
            IF children.thrown # "" THEN children
            ELSE Built(matchChildrenWithIncludeFilters(
                          SelectSeq(children.value, Kept),
                          currentIncludeFilter))
    IN filter(fetchChildren(record, context, table))

RECURSIVE buildNode(_, _, _, _, _)
buildNode(record, includeFilter, exclude, context, table) ==
    LET validChildren(childTrees) ==
            [k \in 1..Len(childTrees) |-> childTrees[k].value]
        node(childTrees, thrown) ==
            IF thrown # "" THEN Broken(thrown)
            ELSE Built(toTreeRecord(record, NoStatus,
                                    Some(validChildren(childTrees))))
        settle(childTrees) == node(childTrees, FirstThrown(childTrees))
        build(childrenToProcess) ==
            IF childrenToProcess.thrown # "" THEN childrenToProcess
            ELSE settle([k \in 1..Len(childrenToProcess.value) |->
                           buildNode(childrenToProcess.value[k].record,
                                     childrenToProcess.value[k].includeFilter,
                                     exclude, context, table)])
    IN IF shouldStopTraversal(record, exclude)
       THEN Built(toTreeRecord(record, NoStatus, None))
       ELSE build(fetchAndFilterChildren(record, context, table,
                                         includeFilter, exclude))

buildTreeWithFilters(root, context, table, include, exclude) ==
    buildNode(root, include, exclude, context, table)

RECURSIVE processChildren(_, _)
processChildren(children, unwrapTagNames) ==
    IF Len(children) = 0 THEN <<>>
    ELSE LET child == Head(children)
             rest == processChildren(Tail(children), unwrapTagNames)
         IN IF \E k \in 1..Len(unwrapTagNames) : unwrapTagNames[k] = child.tagName
            THEN processChildren(child.tree, unwrapTagNames) \o rest
            ELSE <<[child EXCEPT
                      !.tree = processChildren(child.tree, unwrapTagNames)]>>
                 \o rest

applyUnwrapKeepsTree(tree, unwrapTagNames) == tree

applyUnwrap(tree, unwrapTagNames) ==
    [tree EXCEPT !.tree = processChildren(tree.tree, unwrapTagNames)]

getTree(context, table, params) ==
    LET return(tree) ==
            IF tree.thrown # "" THEN Thrown(tree.thrown)
            ELSE IF params.unwrap # None
            THEN applyUnwrap(tree.value, CHOOSE given \in params.unwrap : TRUE)
            ELSE tree.value
    IN return(buildTreeWithFilters(context.currentFocus, context, table,
                                   params.include, params.exclude))

\* ------------------------------------------------------------------- state
VARIABLES
    store,       \* the xmlElements table
    focus,       \* currentFocus of the context of the chain's latest handle
    log,         \* the stagedOperations array the contexts of the chain share
    settled,     \* "resolved" or "rejected": the latest handle's contextPromise
    error,       \* the message it rejected with ("" when it resolved)
    used,        \* number of ids randomUUID has handed out
    calls,       \* number of mutation calls made on the chain
    commitError, \* NotCommit unless the last call was commit; then what it
                 \* rejected with (NoError: it resolved)
    mIn,         \* a log handed to mergeOperations on its own
    mOut,        \* what mergeOperations returned for it
    query,       \* the last query method called on the chain, with its input
                 \* (for deepCloneChild on its own: the call and the hook)
    answer       \* what that query resolved with

vars ==
    <<store, focus, log, settled, error, used, calls, commitError, mIn, mOut,
      query, answer>>

mergeVars == <<mIn, mOut>>
queryVars == <<query, answer>>

NoQuery == [method |-> "none"]
NoAnswer == [kind |-> "none"]

\* the context of the chain's latest handle
Context ==
    IF settled = "resolved" THEN Resolved(focus, log) ELSE Rejected(log, error)

NotCommit == [errorKey |-> "none", originalError |-> ""]

\* inputs
AddChildAttributes == {<<[name |-> "a", value |-> "v2"]>>}
UpdateInputs ==
    { [attributes |-> <<[name |-> "b", value |-> "v1"]>>, value |-> "text"] }
CloneRecords ==
    { TreeRecord(2, "A", <<[name |-> "a", value |-> "v1"]>>, "",
                 <<TreeRecord(3, "AA_1", <<[name |-> "a", value |-> "v1"]>>,
                              "", <<>>)>>) }

\* a chain obtained from fromRoot() on an imported document
Init ==
    /\ store \in InitialStores
    /\ focus = fromRoot(store).currentFocus
    /\ log = <<>>
    /\ settled = "resolved"
    /\ error = ""
    /\ used = 0
    /\ calls = 0
    /\ commitError = NotCommit
    /\ mIn = <<>>
    /\ mOut = NoMerge
    /\ query = NoQuery
    /\ answer = NoAnswer

\* the handle a method returns settles with `result`
Settle(result) ==
    /\ focus' = result.currentFocus
    /\ log' = result.stagedOperations
    /\ settled' = IF result.ok THEN "resolved" ELSE "rejected"
    /\ error' = result.error
    /\ commitError' = NotCommit
    /\ UNCHANGED <<mergeVars, queryVars>>

GoToElement(tagName, id) ==
    /\ settled = "resolved"
    /\ Settle(goToElement(Context, store, tagName, id))
    /\ UNCHANGED <<store, used, calls>>

GoToParent ==
    /\ settled = "resolved"
    /\ Settle(goToParent(Context, store))
    /\ UNCHANGED <<store, used, calls>>

AddChildWritesThrough(tagName, attributes, value, setFocus) ==
    /\ settled = "resolved"
    /\ calls < MaxCalls
    /\ calls' = calls + 1
    /\ tagName \in ChildrenOf(focus.tagName)
    /\ used < MaxFresh
    /\ LET result == addChild(Context, FreshId(used + 1), tagName, attributes,
                              value, setFocus)
       IN /\ Settle(result)
          /\ store' = bulkPut(store,
                   NewRecords(mergeOperations(result.stagedOperations).creates))
    /\ used' = used + 1

\* the caller leaves `id` unset: childRecordId is crypto.randomUUID()
AddChild(tagName, attributes, value, setFocus) ==
    /\ settled = "resolved"
    /\ calls < MaxCalls
    /\ calls' = calls + 1
    /\ tagName \in ChildrenOf(focus.tagName)
    /\ used < MaxFresh
    /\ Settle(addChild(Context, FreshId(used + 1), tagName, attributes, value,
                       setFocus))
    /\ used' = used + 1
    /\ UNCHANGED store

Update(attributes, value) ==
    /\ settled = "resolved"
    /\ calls < MaxCalls
    /\ calls' = calls + 1
    /\ Settle(update(Context, attributes, value))
    /\ UNCHANGED <<store, used>>

Delete ==
    /\ settled = "resolved"
    /\ calls < MaxCalls
    /\ calls' = calls + 1
    /\ Settle(deleteElement(Context, store))
    /\ UNCHANGED <<store, used>>

DeepCloneChild(record, setFocus) ==
    /\ settled = "resolved"
    /\ calls < MaxCalls
    /\ calls' = calls + 1
    /\ record.tagName \in ChildrenOf(focus.tagName)
    /\ used + TreeSize(record) <= MaxFresh
    /\ Settle(deepCloneChild(NoHook, Context, store, record, setFocus, used))
    /\ used' = used + TreeSize(record)
    /\ UNCHANGED store

\* getContext awaits the context and hands out a clone: the chain is left as
\* it is, resolved or rejected
GetContext ==
    /\ Settle(Context)
    /\ UNCHANGED <<store, used, calls>>

Commit(failAt) ==
    /\ LET result == commit(Context, store, failAt)
       IN /\ store' = result.table
          /\ log' = result.remaining
          /\ commitError' = result.error
    /\ UNCHANGED <<focus, settled, error, used, calls, mergeVars, queryVars>>

\* ids a caller can name: none, those of the imported document and those
\* crypto.randomUUID() has handed out so far
GoToElementIds == {NoId} \cup StoreIds \cup {FreshId(k) : k \in 1..used}

Next ==
    \/ \E tagName \in Tags, id \in GoToElementIds : GoToElement(tagName, id)
    \/ GoToParent
    \/ \E tagName \in Tags, attributes \in AddChildAttributes,
          setFocus \in BOOLEAN :
          AddChild(tagName, attributes, NoValue, setFocus)
    \/ \E input \in UpdateInputs : Update(input.attributes, input.value)
    \/ Delete
    \/ \E record \in CloneRecords, setFocus \in BOOLEAN :
          DeepCloneChild(record, setFocus)
    \/ GetContext
    \/ \E failAt \in FailPoints : Commit(failAt)

Spec == Init /\ [][Next]_vars

\* ------------------------------------------------------- update on its own
\* a document Root(1)[A(2)] whose A is focused through fromElement, and
\* every update of it with or without attributes and with or without value
UpdateRecords ==
    { RawRecord(2, "A", attributes, value, Ref(1, "Root"), <<>>) :
        attributes \in { <<[name |-> "a", value |-> "v1"]>>,
                         <<[name |-> "a", value |-> "v1"],
                           [name |-> "b", value |-> "v1"]>> },
        value \in {"", "old"} }

UpdateAttributes ==
    { NoAttributes,
      <<[name |-> "a", value |-> "v2"]>>,
      <<[name |-> "b", value |-> "v2"]>>,
      <<[name |-> "b", value |-> "v1"], [name |-> "a", value |-> "v2"]>> }

UpdateValues == {NoValue, "text"}

InitUpdate ==
    /\ \E record \in UpdateRecords :
          store = [i \in Ids |->
                      IF i = 1
                      THEN RawRecord(1, "Root", <<>>, "", NoRef, <<Ref(2, "A")>>)
                      ELSE IF i = 2 THEN record ELSE NoRecord]
    /\ focus = fromElement(store, "A", 2).currentFocus
    /\ log = <<>>
    /\ settled = "resolved"
    /\ error = ""
    /\ used = 0
    /\ calls = 0
    /\ commitError = NotCommit
    /\ mIn = <<>>
    /\ mOut = NoMerge
    /\ query = NoQuery
    /\ answer = NoAnswer

NextUpdate ==
    \E attributes \in UpdateAttributes, value \in UpdateValues :
        Update(attributes, value)

SpecUpdate == InitUpdate /\ [][NextUpdate]_vars

\* ------------------------------------------------------ queries on their own
\* An imported document
\*   Root(1) > A(2) > [ AA_1(3) > AAA_1(6), AA_1(4) > AAA_1(7), AA_2(5) > AAA_2(8) ]
\* and chains on it that staged nothing, an update, a delete or new children;
\* the query methods are called on every element such a chain can focus.
QueryTags == {"Root", "A", "AA_1", "AA_2", "AAA_1", "AAA_2"}
QueryIds == 1..10

QueryDocument ==
    LET a(value) == [name |-> "a", value |-> value]
        b(value) == [name |-> "b", value |-> value]
    IN [i \in QueryIds |->
          CASE i = 1 -> RawRecord(1, "Root", <<>>, "", NoRef, <<Ref(2, "A")>>)
            [] i = 2 -> RawRecord(2, "A", <<a("v1")>>, "", Ref(1, "Root"),
                                  <<Ref(3, "AA_1"), Ref(4, "AA_1"), Ref(5, "AA_2")>>)
            [] i = 3 -> RawRecord(3, "AA_1", <<a("v1")>>, "", Ref(2, "A"),
                                  <<Ref(6, "AAA_1")>>)
            [] i = 4 -> RawRecord(4, "AA_1", <<a("v2"), b("v1")>>, "", Ref(2, "A"),
                                  <<Ref(7, "AAA_1")>>)
            [] i = 5 -> RawRecord(5, "AA_2", <<a("v1")>>, "", Ref(2, "A"),
                                  <<Ref(8, "AAA_2")>>)
            [] i = 6 -> RawRecord(6, "AAA_1", <<a("v1")>>, "", Ref(3, "AA_1"), <<>>)
            [] i = 7 -> RawRecord(7, "AAA_1", <<a("v2")>>, "", Ref(4, "AA_1"), <<>>)
            [] i = 8 -> RawRecord(8, "AAA_2", <<a("v1")>>, "", Ref(5, "AA_2"), <<>>)
            [] OTHER -> NoRecord]

\* fromRoot().goToElement(AA_1, 3).update({bAA_1: 'v2'})
QueryAfterUpdate ==
    update(goToElement(fromRoot(QueryDocument), QueryDocument, "AA_1", 3),
           <<[name |-> "b", value |-> "v2"]>>, NoValue)

\* fromRoot().goToElement(AA_1, 4).delete()
QueryAfterDelete ==
    deleteElement(goToElement(fromRoot(QueryDocument), QueryDocument, "AA_1", 4),
                  QueryDocument)

\* fromRoot().goToElement(A, 2).addChild(AA_1 without attributes)
\*           .addChild(AAA_1 with aAAA_1 = 'v1'): ids 9 and 10
QueryAfterAddChild ==
    addChild(addChild(goToElement(fromRoot(QueryDocument), QueryDocument, "A", 2),
                      9, "AA_1", <<>>, NoValue, TRUE),
             10, "AAA_1", <<[name |-> "a", value |-> "v1"]>>, NoValue, TRUE)

QueryLogs ==
    { <<>>,
      QueryAfterUpdate.stagedOperations,
      QueryAfterDelete.stagedOperations,
      QueryAfterAddChild.stagedOperations }

AttributeFilters ==
    { <<>>,
      <<ExpectOne("a", "v1")>>,
      <<ExpectSome("a", <<"v1", "v2">>)>>,
      <<ExpectOne("a", "v2"), ExpectOne("b", "v1")>>,
      <<ExpectOne("b", "v1")>>,
      <<ExpectUndefined("a"), ExpectOne("b", "v2")>>,
      <<ExpectOne("a", "")>> }

FindChildrenInputs ==
    { <<[tagName |-> tagName, attributes |-> attributes]>> :
        tagName \in {"AA_1", "AA_2", "AAA_1"}, attributes \in AttributeFilters }
    \cup { <<[tagName |-> "AA_1", attributes |-> <<ExpectOne("a", "v1")>>],
             [tagName |-> "AA_2", attributes |-> <<>>]>> }

\* the levels a filter names, shallowest first, nested as the caller writes them
RECURSIVE Nested(_)
Nested(levels) ==
    IF levels = <<>> THEN NoFilter
    ELSE DescendantsFilter(levels[1].tagName, levels[1].attributes,
                           Nested(Tail(levels)))

FilterLevels(tagNames) ==
    { [tagName |-> tagName, attributes |-> attributes] :
        tagName \in tagNames,
        attributes \in {<<>>, <<ExpectOne("a", "v1")>>} }
    \cup { [tagName |-> tagName,
            attributes |-> <<ExpectSome("a", <<"v2", "v3">>), ExpectOne("b", "v1")>>] :
            tagName \in tagNames \cap {"AA_1"} }

FindDescendantsInputs ==
    LET level1 == FilterLevels({"A"})
        level2 == FilterLevels({"AA_1", "AA_2"})
        level3 == FilterLevels({"AAA_1"})
    IN { Nested(levels) :
           levels \in { <<l>> : l \in level1 \cup level2 \cup level3 }
                     \cup (level1 \X level2) \cup (level1 \X level3)
                     \cup (level2 \X level3)
                     \cup (level1 \X level2 \X level3) }

\* the tag of a level is not checked against the definition at run time: the
\* last two filters name AA_1 below AA_1
IncludeFilters ==
    { NoInclude,
      IncludeFilter("A", <<>>, <<>>),
      IncludeFilter("AA_1", <<>>, <<>>),
      IncludeFilter("AA_1", <<ExpectOne("a", "v1")>>, <<>>),
      IncludeFilter("AA_1", <<ExpectSome("a", <<"v2", "v3">>),
                              ExpectOne("b", "v1")>>, <<>>),
      IncludeFilter("A", <<>>,
                    <<IncludeFilter("AA_1", <<ExpectOne("a", "v1")>>, <<>>)>>),
      IncludeFilter("AA_1", <<>>,
                    <<IncludeFilter("AAA_1", <<ExpectOne("a", "v2")>>, <<>>)>>),
      IncludeFilter("AA_1", <<>>,
                    <<IncludeFilter("AA_1", <<ExpectOne("a", "v2")>>, <<>>),
                      IncludeFilter("AA_1", <<>>,
                                    <<IncludeFilter("AAA_1", <<>>, <<>>)>>)>>) }

ExcludeFilters ==
    { <<>>,
      <<ExcludeFilter("A", <<>>, "children")>>,
      <<ExcludeFilter("AA_1", <<>>, "children")>>,
      <<ExcludeFilter("AA_1", <<ExpectOne("a", "v1")>>, "children"),
        ExcludeFilter("AA_2", <<>>, "children")>>,
      <<ExcludeFilter("AA_1", <<>>, "undefined")>>,
      <<ExcludeFilter("AA_1", <<ExpectOne("a", "v2")>>, "self")>>,
      <<ExcludeFilter("AAA_1", <<>>, "self"),
        ExcludeFilter("AA_1", <<ExpectOne("a", "v1")>>, "children")>> }

UnwrapTagNames ==
    { <<"A">>, <<"AA_1">>, <<"A", "AA_1">>, <<"AA_2", "AAA_1">>, <<>> }

GetTreeInputs ==
    { GetTreeParams(include, exclude, None) :
        include \in IncludeFilters, exclude \in ExcludeFilters }
    \cup { GetTreeParams(include, exclude, Some(unwrap)) :
             include \in {NoInclude, IncludeFilter("AA_1", <<>>, <<>>)},
             exclude \in { <<>>,
                           <<ExcludeFilter("AA_1", <<ExpectOne("a", "v2")>>,
                                           "self")>>,
                           <<ExcludeFilter("AA_1", <<ExpectOne("a", "v1")>>,
                                           "children"),
                             ExcludeFilter("AA_2", <<>>, "children")>> },
             unwrap \in UnwrapTagNames }

InitQuery ==
    /\ store = QueryDocument
    /\ \E stagedOperations \in QueryLogs, tagName \in QueryTags, id \in QueryIds :
          LET context == goToElement(Resolved(NoRecord, stagedOperations),
                                     QueryDocument, tagName, id)
          IN /\ context.ok
             /\ focus = context.currentFocus
             /\ log = stagedOperations
    /\ settled = "resolved"
    /\ error = ""
    /\ used = 0
    /\ calls = 0
    /\ commitError = NotCommit
    /\ mIn = <<>>
    /\ mOut = NoMerge
    /\ query = NoQuery
    /\ answer = NoAnswer

Asked(method, input, result) ==
    /\ query' = [method |-> method, input |-> input]
    /\ answer' = result
    /\ UNCHANGED <<store, focus, log, settled, error, used, calls, commitError,
                   mergeVars>>

FindChildren(filters) ==
    /\ settled = "resolved"
    /\ Asked("findChildren", filters, findChildren(Context, store, filters))

FindDescendants(filter) ==
    /\ settled = "resolved"
    /\ Asked("findDescendants", filter, findFiltered(Context, store, filter))

GetTree(params) ==
    /\ settled = "resolved"
    /\ Asked("getTree", params, getTree(Context, store, params))

NextQuery ==
    \/ \E params \in GetTreeInputs : GetTree(params)
    \/ \E filters \in FindChildrenInputs : FindChildren(filters)
    \/ \E filter \in FindDescendantsInputs : FindDescendants(filter)

SpecQuery == InitQuery /\ [][NextQuery]_vars

\* ------------------------------------------------ deepCloneChild on its own
\* chains on the document of the queries, focused on Root(1), A(2) or AA_1(3)
\* with nothing or an update staged; the trees are what getTree returns on the
\* document, cloned under an element their root is a child of; the
\* configuration has no beforeClone hook or one that skips and rewrites nodes.
TreeOfA ==
    getTree(fromElement(QueryDocument, "A", 2), QueryDocument,
            GetTreeParams(IncludeFilter("AA_1", <<>>, <<>>), <<>>, None))
TreeOfAA_1 ==
    getTree(fromElement(QueryDocument, "AA_1", 4), QueryDocument,
            GetTreeParams(NoInclude, <<>>, None))
TreeOfAAA_1 ==
    getTree(fromElement(QueryDocument, "AAA_1", 6), QueryDocument,
            GetTreeParams(NoInclude, <<>>, None))

CloneTreesUnder(tagName) ==
    IF tagName = "Root" THEN {TreeOfA}
    ELSE IF tagName = "A" THEN {TreeOfAA_1}
    ELSE IF tagName = "AA_1" THEN {TreeOfAAA_1}
    ELSE {}

CloneTrees == {TreeOfA, TreeOfAA_1, TreeOfAAA_1}

BeforeCloneHooks ==
    {NoHook}
    \cup { BeforeCloneHook(skipped, rewritten) :
             skipped \in {{}, {2}, {3}, {4}, {6}, {7}, {3, 7}},
             rewritten \in {{}, {3, 4}} }

\* the ids of QueryIds are taken by the document and the chains staged on it:
\* crypto.randomUUID() hands out the ids after them
CloneIdsTaken == Cardinality(QueryIds \ StoreIds)

InitClone ==
    /\ store = QueryDocument
    /\ \E stagedOperations \in {<<>>, QueryAfterUpdate.stagedOperations},
          id \in {1, 2, 3} :
          LET context == goToElement(Resolved(NoRecord, stagedOperations),
                                     QueryDocument, QueryDocument[id].tagName,
                                     id)
          IN /\ context.ok
             /\ focus = context.currentFocus
             /\ log = stagedOperations
    /\ settled = "resolved"
    /\ error = ""
    /\ used = CloneIdsTaken
    /\ calls = 0
    /\ commitError = NotCommit
    /\ mIn = <<>>
    /\ mOut = NoMerge
    /\ query = NoQuery
    /\ answer = NoAnswer

CloneWithHook(record, setFocus, hook) ==
    /\ settled = "resolved"
    /\ calls < MaxClones
    /\ calls' = calls + 1
    /\ record \in CloneTreesUnder(focus.tagName)
    /\ LET result == deepCloneChild(hook, Context, store, record, setFocus, used)
       IN /\ focus' = result.currentFocus
          /\ log' = result.stagedOperations
          /\ settled' = IF result.ok THEN "resolved" ELSE "rejected"
          /\ error' = result.error
    /\ used' = addChildRecursively(hook, Context, store, record.id, record,
                                   used).used
    /\ query' = [method |-> "deepCloneChild",
                 input |-> [record |-> record, setFocus |-> setFocus,
                            beforeClone |-> hook]]
    /\ answer' = NoAnswer
    /\ commitError' = NotCommit
    /\ UNCHANGED <<store, mergeVars>>

NextClone ==
    \E record \in CloneTrees, setFocus \in BOOLEAN, hook \in BeforeCloneHooks :
        CloneWithHook(record, setFocus, hook)

SpecClone == InitClone /\ [][NextClone]_vars

\* ------------------------------------------------- mergeOperations on its own
\* every log of at most MaxMergeLen operations over two ids
MergeIds == {1, 2}
MergeRecord(id, value) ==
    RawRecord(id, "A", <<[name |-> "a", value |-> value]>>, "", NoRef, <<>>)
MergeRecords(id) == {MergeRecord(id, value) : value \in Values}
MergeInputs ==
    UNION { {CreatedOp(r) : r \in MergeRecords(id)}
            \cup {UpdatedOp(o, n) : o \in MergeRecords(id), n \in MergeRecords(id)}
            \cup {DeletedOp(r) : r \in MergeRecords(id)} : id \in MergeIds }

InitMerge ==
    /\ store = CHOOSE table \in InitialStores : table[2] = NoRecord
    /\ focus = fromRoot(store).currentFocus
    /\ log = <<>>
    /\ settled = "resolved"
    /\ error = ""
    /\ used = 0
    /\ calls = 0
    /\ commitError = NotCommit
    /\ mIn = <<>>
    /\ mOut = mergeOperations(<<>>)
    /\ query = NoQuery
    /\ answer = NoAnswer

MergeAppend(operation) ==
    /\ Len(mIn) < MaxMergeLen
    /\ mIn' = Append(mIn, operation)
    /\ mOut' = mergeOperations(mIn')
    /\ UNCHANGED <<store, focus, log, settled, error, used, calls, commitError,
                   queryVars>>

NextMerge == \E operation \in MergeInputs : MergeAppend(operation)

SpecMerge == InitMerge /\ [][NextMerge]_vars

\* ------------------------------------------------------------- properties
\* the merged log of the chain's latest context
Merged == mergeOperations(log)

Last(s) == s[Len(s)]

\* every reference in a record's children names an existing record whose
\* parent is that record, and every record with a parent is listed exactly
\* once in that parent's children
Bidirectional(table) ==
    \A i \in Ids :
        table[i] # NoRecord =>
            /\ \A k \in 1..Len(table[i].children) :
                  LET child == table[i].children[k]
                  IN /\ table[child.id] # NoRecord
                     /\ table[child.id].parent = Ref(i, table[i].tagName)
            /\ table[i].parent # NoRef =>
                  LET parent == table[table[i].parent.id]
                  IN /\ parent # NoRecord
                     /\ Cardinality({k \in 1..Len(parent.children) :
                                        parent.children[k].id = i}) = 1

\* C1: from a store that agrees bidirectionally, a linear sequence of chain
\* calls followed by a successful commit leaves a store that agrees
\* bidirectionally.  (The store changes at successful commits only and the
\* imported store agrees.)
C1_StoreAgreesAfterCommit == commitError = NoError => Bidirectional(store)

\* the store a commit of the merged log must leave: creates added, updates
\* replaced, deletes removed, every other row as it was
HasEntry(operations, id) ==
    \E k \in 1..Len(operations) : elementId(operations[k]) = id
EntryOf(operations, id) ==
    operations[CHOOSE k \in 1..Len(operations) : elementId(operations[k]) = id]

CommitApplied(before, merged, after) ==
    \A i \in Ids :
        /\ HasEntry(merged.creates, i) =>
              /\ before[i] = NoRecord
              /\ after[i] = EntryOf(merged.creates, i).newRecord
        /\ HasEntry(merged.updates, i) =>
              /\ before[i] # NoRecord
              /\ after[i] = EntryOf(merged.updates, i).newRecord
        /\ HasEntry(merged.deletes, i) => after[i] = NoRecord
        /\ (~HasEntry(merged.creates, i) /\ ~HasEntry(merged.updates, i)
            /\ ~HasEntry(merged.deletes, i)) => after[i] = before[i]

\* Root(id=1) without children, addChild(A, setFocus=true),
\* addChild(AA_1, setFocus=false): the two ids are the first two fresh ones
ScenarioAttributes == <<[name |-> "a", value |-> "v2"]>>
ScenarioLog ==
    << CreatedOp(RawRecord(4, "A", ScenarioAttributes, "", Ref(1, "Root"), <<>>)),
       UpdatedOp(RawRecord(1, "Root", <<>>, "", NoRef, <<>>),
                 RawRecord(1, "Root", <<>>, "", NoRef, <<Ref(4, "A")>>)),
       CreatedOp(RawRecord(5, "AA_1", ScenarioAttributes, "", Ref(4, "A"), <<>>)),
       UpdatedOp(RawRecord(4, "A", ScenarioAttributes, "", Ref(1, "Root"), <<>>),
                 RawRecord(4, "A", ScenarioAttributes, "", Ref(1, "Root"),
                           <<Ref(5, "AA_1")>>)) >>
ScenarioStore ==
    [i \in Ids |->
        IF i = 1 THEN RawRecord(1, "Root", <<>>, "", NoRef, <<Ref(4, "A")>>)
        ELSE IF i = 4
        THEN RawRecord(4, "A", ScenarioAttributes, "", Ref(1, "Root"),
                       <<Ref(5, "AA_1")>>)
        ELSE IF i = 5
        THEN RawRecord(5, "AA_1", ScenarioAttributes, "", Ref(4, "A"), <<>>)
        ELSE NoRecord]

\* C2: a successful commit leaves the store of before the commit with the
\* merged creates added, the merged updates replaced and the merged deletes
\* removed, nothing else changed; the Root/A/AA_1 scenario ends with a store
\* holding exactly Root with child A, A with child AA_1, and AA_1.
C2_CommitAppliesMergedLog ==
    /\ [][commitError' = NoError => CommitApplied(store, Merged, store')]_vars
    /\ []((commitError = NoError /\ log = ScenarioLog) => store = ScenarioStore)

C2_Witness ==
    /\ commitError = NoError
    /\ log = ScenarioLog
    /\ Len(Merged.creates) = 2
    /\ Len(Merged.updates) = 1
    /\ store[5] # NoRecord

CommitFailed(e) == e # NoError /\ e # NotCommit

\* C3: a commit whose transaction fails at bulk add, bulk put or bulk delete
\* leaves the store as it was, rejects with a commit error that wraps the
\* store's error, and leaves the chain's staged log as it was, so that the
\* next commit merges the same operations.
C3_FailedCommitChangesNothing ==
    [][(settled = "resolved" /\ CommitFailed(commitError')) =>
          /\ store' = store
          /\ log' = log
          /\ mergeOperations(log') = Merged
          /\ commitError'.errorKey = "DATABASE_COMMIT_ERROR"
          /\ \E failAt \in FailPoints :
                /\ transactionBody(store, Merged, failAt).failed # ""
                /\ commitError'.originalError
                      = transactionBody(store, Merged, failAt).error]_vars

\* a failed commit of a log with creates that do not collide, updates and
\* deletes: whichever step failed, some steps before it had written
C3_Witness ==
    /\ settled = "resolved"
    /\ CommitFailed(commitError)
    /\ commitError.originalError = "StoreError"
    /\ Merged.creates # <<>>
    /\ Merged.updates # <<>>
    /\ Merged.deletes # <<>>
    /\ ~bulkAddCollides(store, NewRecords(Merged.creates))

\* C4: after commit() has resolved, getContext() on the same chain returns
\* zero staged operations.
C4_LogEmptyAfterCommit ==
    commitError = NoError => getContext(Context).stagedOperations = <<>>

C6_OriginalContextUnchanged ==
    [][calls' = calls + 1 =>
          getContext(Resolved(focus, log')) = getContext(Resolved(focus, log))]_vars

\* ------------------------------------------------- properties of the merge
OperationsOn(operations, id) ==
    LET on(operation) == elementId(operation) = id
    IN SelectSeq(operations, on)

EntriesFor(merged, id) ==
    OperationsOn(merged.creates \o merged.updates \o merged.deletes, id)

\* the first oldRecord staged for the id
FirstOldRecord(s) ==
    LET olds == {k \in 1..Len(s) : s[k].oldRecord # NoRecord}
    IN s[CHOOSE k \in olds : \A j \in olds : k <= j].oldRecord

\* C7 (as stated): for any sequence of operations on one id ending in
\* deleted, the merge result's oldRecord for the id is the first oldRecord
\* staged for the id.
C7_DeletedKeepsFirstOld ==
    \A id \in MergeIds :
        LET s == OperationsOn(mIn, id)
        IN (s # <<>> /\ Last(s).status = "deleted") =>
              \A k \in 1..Len(EntriesFor(mOut, id)) :
                  EntriesFor(mOut, id)[k].oldRecord = FirstOldRecord(s)

\* C7 (amended): for any sequence of operations on one id that does not
\* begin with created and ends in deleted, the merge yields exactly one
\* entry for the id, a deleted one whose oldRecord is the oldRecord of the
\* first operation.
C7_DeletedKeepsFirstOldUnlessCreatedFirst ==
    \A id \in MergeIds :
        LET s == OperationsOn(mIn, id)
        IN (s # <<>> /\ s[1].status # "created" /\ Last(s).status = "deleted") =>
              /\ EntriesFor(mOut, id) = <<DeletedOp(s[1].oldRecord)>>
              /\ OperationsOn(mOut.deletes, id) = <<DeletedOp(s[1].oldRecord)>>

\* updated, updated, deleted whose three oldRecords are not all the same
C7_Witness ==
    \E id \in MergeIds :
        LET s == OperationsOn(mIn, id)
        IN /\ Len(s) >= 3
           /\ s[1].status = "updated"
           /\ s[2].status = "updated"
           /\ Last(s).status = "deleted"
           /\ s[2].oldRecord # s[1].oldRecord
           /\ Last(s).oldRecord # s[1].oldRecord
           /\ OperationsOn(mOut.deletes, id) = <<DeletedOp(s[1].oldRecord)>>

\* C8: created followed by any number of updated on the same id, and nothing
\* else on it, merges to exactly one entry for the id, a created one whose
\* newRecord is that of the last operation; updates and deletes hold none.
C8_CreatedThenUpdates ==
    \A id \in MergeIds :
        LET s == OperationsOn(mIn, id)
        IN (/\ s # <<>>
            /\ s[1].status = "created"
            /\ \A k \in 2..Len(s) : s[k].status = "updated") =>
              /\ OperationsOn(mOut.creates, id) = <<CreatedOp(Last(s).newRecord)>>
              /\ OperationsOn(mOut.updates, id) = <<>>
              /\ OperationsOn(mOut.deletes, id) = <<>>

C8_Witness ==
    \E id \in MergeIds :
        LET s == OperationsOn(mIn, id)
        IN /\ Len(s) >= 3
           /\ s[1].status = "created"
           /\ \A k \in 2..Len(s) : s[k].status = "updated"
           /\ Last(s).newRecord # s[1].newRecord
           /\ Last(s).newRecord # s[2].newRecord
           /\ OperationsOn(mOut.creates, id) = <<CreatedOp(Last(s).newRecord)>>

\* C9 (as stated): whenever a created operation on an id is followed, later
\* in the log, by a deleted operation on the same id, the merge holds no
\* entry for the id, whatever lies between the two or after the deleted.
C9_CreatedThenDeletedLeavesNothing ==
    \A id \in MergeIds :
        LET s == OperationsOn(mIn, id)
        IN (\E i, j \in 1..Len(s) :
               i < j /\ s[i].status = "created" /\ s[j].status = "deleted") =>
              EntriesFor(mOut, id) = <<>>

\* C9 (amended): when the first operation on an id is created, the last one
\* is deleted and no other deleted operation on the id lies between them,
\* the merge holds no entry for the id.
C9_CreatedFirstDeletedLast ==
    \A id \in MergeIds :
        LET s == OperationsOn(mIn, id)
        IN (/\ Len(s) >= 2
            /\ s[1].status = "created"
            /\ Last(s).status = "deleted"
            /\ \A k \in 2..(Len(s) - 1) : s[k].status # "deleted") =>
              EntriesFor(mOut, id) = <<>>

\* created, updated, deleted on one id while the other id keeps its entry
C9_Witness ==
    \E id \in MergeIds :
        LET s == OperationsOn(mIn, id)
        IN /\ Len(s) >= 3
           /\ s[1].status = "created"
           /\ s[2].status = "updated"
           /\ Last(s).status = "deleted"
           /\ \A k \in 2..(Len(s) - 1) : s[k].status # "deleted"
           /\ EntriesFor(mOut, id) = <<>>
           /\ Len(mOut.creates) + Len(mOut.updates) + Len(mOut.deletes) = 1

\* C10: two or more updated operations on one id, and nothing else on it,
\* merge to exactly one updated entry whose oldRecord is the first
\* operation's and whose newRecord is the last operation's.
C10_UpdatesCollapse ==
    \A id \in MergeIds :
        LET s == OperationsOn(mIn, id)
        IN (/\ Len(s) >= 2
            /\ \A k \in 1..Len(s) : s[k].status = "updated") =>
              EntriesFor(mOut, id) = <<UpdatedOp(s[1].oldRecord, Last(s).newRecord)>>

C10_Witness ==
    \E id \in MergeIds :
        LET s == OperationsOn(mIn, id)
        IN /\ Len(s) >= 3
           /\ \A k \in 1..Len(s) : s[k].status = "updated"
           /\ s[2].oldRecord # s[1].oldRecord
           /\ s[2].newRecord # Last(s).newRecord
           /\ EntriesFor(mOut, id) = <<UpdatedOp(s[1].oldRecord, Last(s).newRecord)>>

\* what mergeOperations holds for the log cut after its first k operations
MergedPrefix(k) == mergeOperations(SubSeq(mIn, 1, k))

\* C11: deleted is terminal in the merge: once the merged state of an id is
\* a deleted entry, the operations that follow on that id are ignored; the
\* final entries for the id are that one deleted entry, with the same
\* oldRecord, and no created or updated entry.
C11_DeletedIsTerminal ==
    \A id \in MergeIds : \A k \in 1..Len(mIn) :
        LET entries == EntriesFor(MergedPrefix(k), id)
        IN (entries # <<>> /\ entries[1].status = "deleted") =>
              /\ EntriesFor(mOut, id) = entries
              /\ OperationsOn(mOut.creates, id) = <<>>
              /\ OperationsOn(mOut.updates, id) = <<>>
              /\ OperationsOn(mOut.deletes, id) = <<DeletedOp(entries[1].oldRecord)>>

\* updated, deleted, then created and updated with other records on one id
C11_Witness ==
    \E id \in MergeIds :
        LET s == OperationsOn(mIn, id)
        IN /\ Len(s) = 4
           /\ s[1].status = "updated"
           /\ s[2].status = "deleted"
           /\ s[3].status = "created"
           /\ s[4].status = "updated"
           /\ s[3].newRecord # s[1].oldRecord
           /\ s[2].oldRecord # s[1].oldRecord
           /\ EntriesFor(mOut, id) = <<DeletedOp(s[1].oldRecord)>>

\* -------------------------------------- properties of the mutation methods
\* the operations a call has pushed onto the staged log
Appended == SubSeq(log', Len(log) + 1, Len(log'))
LogKept == Len(log') >= Len(log) /\ SubSeq(log', 1, Len(log)) = log

CountStatus(operations, status) ==
    Cardinality({k \in 1..Len(operations) : operations[k].status = status})

\* the record of an id in its latest state: the newRecord of the last
\* operation staged for it (none when that one is deleted), else the store row
LatestRecord(stagedOperations, table, id) ==
    LET hits == {k \in 1..Len(stagedOperations) :
                    elementId(stagedOperations[k]) = id}
        last == CHOOSE k \in hits : \A j \in hits : j <= k
    IN IF hits # {}
       THEN IF stagedOperations[last].status = "deleted" THEN NoRecord
            ELSE stagedOperations[last].newRecord
       ELSE IF id \in DOMAIN table THEN table[id] ELSE NoRecord

\* ids of the records below a children list, each child resolved in its
\* latest state; the trees of the model are at most Cardinality(Tags) deep
RECURSIVE DescendantIds(_, _, _, _)
DescendantIds(stagedOperations, table, children, depth) ==
    IF depth = 0 THEN {}
    ELSE UNION { LET record == LatestRecord(stagedOperations, table,
                                            children[k].id)
                 IN IF record = NoRecord THEN {}
                    ELSE {children[k].id}
                         \cup DescendantIds(stagedOperations, table,
                                            record.children, depth - 1)
                 : k \in 1..Len(children) }

FocusDescendants ==
    DescendantIds(log, store, focus.children, Cardinality(Tags))

C13_DeleteRootRejects ==
    /\ [][(Delete /\ focus.parent = NoRef) =>
             /\ settled' = "rejected"
             /\ error' = "Cannot delete root element"]_vars
    /\ [][settled = "rejected" =>
             /\ settled' = "rejected"
             /\ error' = error
             /\ store' = store
             /\ GetContext => (~getContext(Context).ok
                               /\ getContext(Context).error = error)
             /\ (\E failAt \in FailPoints : Commit(failAt)) =>
                   commitError' = [errorKey |-> "", originalError |-> error]]_vars

\* commit() was called on the chain that delete on the root returned
C13_Witness ==
    /\ settled = "rejected"
    /\ error = "Cannot delete root element"
    /\ commitError = [errorKey |-> "", originalError |-> error]
    /\ log # <<>>

\* a children list without the references to an id, the others in their order
WithoutId(children, id) ==
    LET other(child) == child.id # id
    IN SelectSeq(children, other)

\* C14: after a successful delete of a focus X whose parent is P, the chain
\* is focused on P in its latest staged state with X removed: the focus is
\* that record with every reference to X.id taken out of children, the
\* other references in their order, and the updated operation staged for P
\* (the last one appended) goes from P's latest state to that record.
C14_DeleteFocusesParent ==
    [][(Delete /\ settled' = "resolved") =>
          LET parent == LatestRecord(log, store, focus.parent.id)
              expected == [parent EXCEPT
                              !.children = WithoutId(parent.children, focus.id)]
          IN /\ parent # NoRecord
             /\ focus' = toChainRecord(expected, "updated")
             /\ \A k \in 1..Len(focus'.children) : focus'.children[k].id # focus.id
             /\ Last(log') = UpdatedOp(parent, expected)]_vars

\* AA_1(4) staged under A(2) and deleted again: A's latest state comes from
\* the log, holds two references, and the focus keeps the other one
C14_Witness ==
    /\ settled = "resolved"
    /\ Len(log) = 4
    /\ log[1].status = "created" /\ elementId(log[1]) = 4
    /\ log[2].status = "updated" /\ Len(log[2].newRecord.children) = 2
    /\ log[3].status = "deleted" /\ elementId(log[3]) = 4
    /\ log[4].status = "updated" /\ log[4].oldRecord = log[2].newRecord
    /\ focus.id = 2
    /\ focus.children = <<Ref(3, "AA_1")>>
    /\ focus.status = "updated"

\* the fields of the focus that make its raw record
FocusRaw == toRawRecord(focus)

AddChildStep(setFocus) ==
    \E tagName \in Tags, attributes \in AddChildAttributes :
        AddChild(tagName, attributes, NoValue, setFocus)

\* C15: addChild on a focus P (no afterCreated hook is configured) appends
\* exactly two operations, in this order: created for the child, whose record
\* has parent {P.id, P.tagName} and no children, then updated for P, from P as
\* focused to P with the child's {id, tagName} appended at the end of children.
C15_AddChildStagesTwo ==
    [][(\E setFocus \in BOOLEAN : AddChildStep(setFocus)) =>
          /\ LogKept
          /\ Len(Appended) = 2
          /\ Appended[1].status = "created"
          /\ Appended[1].oldRecord = NoRecord
          /\ Appended[1].newRecord.id = FreshId(used')
          /\ Appended[1].newRecord.parent = [id |-> focus.id, tagName |-> focus.tagName]
          /\ Appended[1].newRecord.children = <<>>
          /\ Appended[2].status = "updated"
          /\ Appended[2].oldRecord = FocusRaw
          /\ Appended[2].newRecord =
                [FocusRaw EXCEPT
                    !.children = focus.children
                        \o <<[id |-> Appended[1].newRecord.id,
                              tagName |-> Appended[1].newRecord.tagName]>>]]_vars

\* a second A staged under the Root that holds A(2)
C15_Witness ==
    /\ settled = "resolved"
    /\ commitError = NotCommit
    /\ Len(log) = 2
    /\ log[1].status = "created" /\ log[1].newRecord.parent = Ref(1, "Root")
    /\ log[2].status = "updated"
    /\ log[2].oldRecord.children = <<Ref(2, "A")>>
    /\ log[2].newRecord.children = <<Ref(2, "A"), Ref(4, "A")>>

\* C16: the chain addChild returns is focused on the new child when setFocus
\* is true and on the parent otherwise; with setFocus false the focused
\* parent's children are the previous list with one element added at the end,
\* the new child's {id, tagName}.
C16_AddChildFocus ==
    [][/\ AddChildStep(TRUE) =>
             /\ settled' = "resolved"
             /\ focus' = toChainRecord(Appended[1].newRecord, "created")
             /\ focus'.id = FreshId(used')
       /\ AddChildStep(FALSE) =>
             /\ settled' = "resolved"
             /\ toRawRecord(focus') =
                   [FocusRaw EXCEPT
                       !.children = Append(focus.children,
                                           [id |-> FreshId(used'),
                                            tagName |-> Appended[1].newRecord.tagName])]
             /\ Len(focus'.children) = Len(focus.children) + 1
             /\ focus'.status = "updated"]_vars

\* A staged under the Root with setFocus, then AA_1 under it without: the
\* focus is A holding the reference to AA_1
C16_Witness ==
    /\ settled = "resolved"
    /\ commitError = NotCommit
    /\ log = ScenarioLog
    /\ focus = toChainRecord(log[4].newRecord, "updated")
    /\ focus.children = <<Ref(5, "AA_1")>>

\* the values an attributes array holds under a name, in the array's order
ValuesOf(attributesArray, name) ==
    LET named(attribute) == attribute.name = name
        hits == SelectSeq(attributesArray, named)
    IN [k \in 1..Len(hits) |-> hits[k].value]

NamesOf(attributesArray) ==
    {attributesArray[k].name : k \in 1..Len(attributesArray)}

\* C17: update({attributes, value}) yields a focus in which every attribute
\* named in the input has the input's value, every other attribute of the
\* record is kept with its value, the text value is replaced only when value
\* is given, and id, tagName, namespace, parent and children are as they
\* were; exactly one updated operation, from the previous focus to the new
\* one, is appended to the log.
C17_UpdateKeepsTheRest ==
    [][\A attributes \in UpdateAttributes, value \in UpdateValues :
          Update(attributes, value) =>
             LET given == IF attributes = NoAttributes THEN <<>> ELSE attributes
             IN /\ settled' = "resolved"
                /\ \A name \in NamesOf(given) :
                      ValuesOf(focus'.attributes, name) = ValuesOf(given, name)
                /\ \A name \in NamesOf(focus.attributes) \ NamesOf(given) :
                      ValuesOf(focus'.attributes, name)
                         = ValuesOf(focus.attributes, name)
                /\ NamesOf(focus'.attributes)
                      = NamesOf(focus.attributes) \cup NamesOf(given)
                /\ focus'.value = (IF value = NoValue THEN focus.value ELSE value)
                /\ focus'.id = focus.id
                /\ focus'.tagName = focus.tagName
                /\ focus'.namespace = focus.namespace
                /\ focus'.parent = focus.parent
                /\ focus'.children = focus.children
                /\ focus'.status = "updated"
                /\ LogKept
                /\ Appended = <<UpdatedOp(FocusRaw, toRawRecord(focus'))>>]_vars

\* b replaced, a kept, the text kept (no value given), then a replaced and a
\* text given
C17_Witness ==
    /\ Len(log) = 2
    /\ log[1].oldRecord.attributes
          = <<[name |-> "a", value |-> "v1"], [name |-> "b", value |-> "v1"]>>
    /\ log[1].oldRecord.value = "old"
    /\ log[1].newRecord.attributes
          = <<[name |-> "a", value |-> "v1"], [name |-> "b", value |-> "v2"]>>
    /\ log[1].newRecord.value = "old"
    /\ log[2].newRecord.attributes
          = <<[name |-> "b", value |-> "v2"], [name |-> "a", value |-> "v2"]>>
    /\ log[2].newRecord.value = "text"
    /\ toRawRecord(focus) = log[2].newRecord

\* C18: goToElement(tagName, id) focuses the newRecord of the most recent
\* staged created or updated operation for the id whenever the log holds an
\* operation for the id, and the store row for (id, tagName) only when the log
\* holds none.
C18_GoToElementPrefersStaged ==
    settled = "resolved" =>
       \A tagName \in Tags, id \in GoToElementIds \ {NoId} :
          LET result == goToElement(Context, store, tagName, id)
              i == LastIndexOf(log, id)
          IN /\ result.stagedOperations = log
             /\ (/\ i # 0
                 /\ log[i].status \in {"created", "updated"}
                 /\ log[i].newRecord.tagName = tagName)
                   => /\ result.ok
                      /\ toRawRecord(result.currentFocus) = log[i].newRecord
             /\ (result.ok /\ i # 0)
                   => /\ log[i].status \in {"created", "updated"}
                      /\ toRawRecord(result.currentFocus) = log[i].newRecord
             /\ (result.ok /\ i = 0)
                   => /\ store[id] # NoRecord
                      /\ store[id].tagName = tagName
                      /\ toRawRecord(result.currentFocus) = store[id]

\* the stored A(2) was updated and is focused again by id: the focus is the
\* staged record, which the store does not hold
C18_Witness ==
    /\ settled = "resolved"
    /\ focus.id = 2
    /\ focus.status = "unchanged"
    /\ LastIndexOf(log, 2) # 0
    /\ log[LastIndexOf(log, 2)].status = "updated"
    /\ toRawRecord(focus) = log[LastIndexOf(log, 2)].newRecord
    /\ store[2] # NoRecord
    /\ store[2] # toRawRecord(focus)
    /\ focus.children = store[2].children

GoToElementFails(result, message) ==
    /\ ~result.ok
    /\ result.error = message
    /\ result.currentFocus = NoRecord
    /\ ~getContext(result).ok

\* C19: goToElement fails, and yields no new focus, when no id is given for
\* a tag that is not a singleton, when the most recent staged operation for
\* the id is deleted (even if the store still holds the record), when the
\* resolved record's tagName differs from the requested one, and when no
\* record is found in the staged log or the store.
C19_GoToElementFails ==
    settled = "resolved" =>
       \A tagName \in Tags, id \in GoToElementIds :
          LET result == goToElement(Context, store, tagName, id)
              i == LastIndexOf(log, id)
          IN /\ (id = NoId /\ tagName \notin singletonElements)
                   => GoToElementFails(result, "requires an id parameter")
             /\ (id # NoId /\ i # 0 /\ log[i].status = "deleted")
                   => GoToElementFails(result, "has been deleted")
             /\ (id # NoId /\ i # 0 /\ log[i].status # "deleted"
                    /\ log[i].newRecord.tagName # tagName)
                   => GoToElementFails(result, "Element tagName mismatch")
             /\ (id # NoId /\ i = 0 /\ store[id] # NoRecord
                    /\ store[id].tagName # tagName)
                   => ~result.ok /\ result.currentFocus = NoRecord
             /\ (id # NoId /\ i = 0 /\ store[id] = NoRecord)
                   => GoToElementFails(result, "not found in database")
             /\ (id = NoId /\ tagName \in singletonElements
                    /\ dbIdsWithTag(store, tagName) = {})
                   => GoToElementFails(result, "not found in database")

\* A(2) is staged as deleted, the store still holds it, and goToElement on
\* it was rejected
C19_Witness ==
    /\ settled = "rejected"
    /\ error = "has been deleted"
    /\ focus = NoRecord
    /\ store[2] # NoRecord
    /\ LastIndexOf(log, 2) # 0
    /\ log[LastIndexOf(log, 2)].status = "deleted"

ParentIndex == LastIndexOf(log, focus.parent.id)

StagedParent ==
    IF log[ParentIndex].status = "deleted"
    THEN log[ParentIndex].oldRecord ELSE log[ParentIndex].newRecord

GoToParentOnRoot ==
    (GoToParent /\ focus.parent = NoRef)
       => /\ settled' = "rejected"
          /\ error' = "Current focus parent should be defined here"
          /\ focus' = NoRecord
          /\ LogKept /\ Appended = <<>>

StagedView ==
    {LatestRecord(log, store, id) : id \in DOMAIN store} \ {NoRecord}

\* every key with a defined value matches: the record holds the attribute and
\* its value is the expected one, or one of the expected ones
Satisfies(record, attributeFilter) ==
    \A k \in 1..Len(attributeFilter) :
       attributeFilter[k].kind # "undefined"
          => /\ HasName(record.attributes, attributeFilter[k].name)
             /\ \E j \in 1..Len(attributeFilter[k].values) :
                   ValuesOf(record.attributes, attributeFilter[k].name)
                      = <<attributeFilter[k].values[j]>>

RawRecords(records) == {toRawRecord(records[k]) : k \in 1..Len(records)}

\* C21: findChildren returns, for each requested tag T with filter F, exactly
\* the records of tag T in the staged view whose parent is the current focus
\* (id and tagName) and that match F: every key with a defined value matches
\* (AND), an array matches when the attribute equals one of its elements (OR),
\* and a record lacking the attribute does not match.
C21_FindChildrenExact ==
    query.method = "findChildren" =>
       /\ Len(answer) = Len(query.input)
       /\ \A k \in 1..Len(query.input) :
             /\ answer[k].tagName = query.input[k].tagName
             /\ Cardinality(RawRecords(answer[k].records)) = Len(answer[k].records)
             /\ RawRecords(answer[k].records)
                   = {r \in StagedView :
                        /\ r.tagName = query.input[k].tagName
                        /\ r.parent = Ref(focus.id, focus.tagName)
                        /\ Satisfies(r, query.input[k].attributes)}

FocusRef == Ref(focus.id, focus.tagName)

\* the first record, from ref upwards in the staged view, that has the tag
RECURSIVE FirstAncestorWithTag(_, _)
FirstAncestorWithTag(ref, tagName) ==
    LET record == LatestRecord(log, store, ref.id)
    IN IF ref = NoRef \/ record = NoRecord THEN NoRecord
       ELSE IF record.tagName = tagName THEN record
       ELSE FirstAncestorWithTag(record.parent, tagName)

\* levels i down to 1 are met from ref upwards and the parent of the record
\* matched for level 1 is the focus
RECURSIVE PathAccepted(_, _, _)
PathAccepted(i, ref, levels) ==
    IF i = 0 THEN ref = FocusRef
    ELSE LET matched == FirstAncestorWithTag(ref, levels[i].tagName)
         IN /\ matched # NoRecord
            /\ Satisfies(matched, levels[i].attributes)
            /\ PathAccepted(i - 1, matched.parent, levels)

RECURSIVE FocusIsAncestor(_)
FocusIsAncestor(ref) ==
    /\ ref # NoRef
    /\ \/ ref = FocusRef
       \/ /\ LatestRecord(log, store, ref.id) # NoRecord
          /\ FocusIsAncestor(LatestRecord(log, store, ref.id).parent)

Accepted(candidate, levels) ==
    IF Len(levels) = 1 THEN FocusIsAncestor(candidate.parent)
    ELSE PathAccepted(Len(levels) - 1, candidate.parent, levels)

AnswerFor(tagName) ==
    LET i == TagIndex(answer, tagName)
    IN IF i = 0 THEN <<>> ELSE answer[i].records

\* C22: findDescendants with a nested filter of levels L1..Ln accepts a
\* candidate c (a record with Ln's tag and attributes) if and only if, walking
\* up c's ancestors for i = n-1 down to 1, the first ancestor whose tag is
\* Li's tag (other tags are skipped) satisfies Li's attributes, and the parent
\* of the ancestor matched for L1 is exactly the current focus; for n = 1, c is
\* accepted if and only if the focus is one of c's ancestors.
C22_FindDescendantsAccepts ==
    query.method = "findDescendants" =>
       LET levels == filterToPath(query.input)
           deepest == levels[Len(levels)]
       IN RawRecords(AnswerFor(deepest.tagName))
             = {c \in StagedView :
                  /\ c.tagName = deepest.tagName
                  /\ Satisfies(c, deepest.attributes)
                  /\ Accepted(c, levels)}

\* from A(2), AA_1[a = v1] > AAA_1 accepts AAA_1(6) under AA_1(3) and not
\* AAA_1(7), whose AA_1(4) has a = v2
C22_Witness ==
    /\ query.method = "findDescendants"
    /\ query.input = Nested(<<[tagName |-> "AA_1",
                               attributes |-> <<ExpectOne("a", "v1")>>],
                              [tagName |-> "AAA_1", attributes |-> <<>>]>>)
    /\ focus.id = 2
    /\ log = <<>>
    /\ RawRecords(AnswerFor("AAA_1")) = {store[6]}

\* the candidates findDescendants accepts for the filter it was asked
AcceptedCandidates ==
    LET levels == filterToPath(query.input)
        deepest == levels[Len(levels)]
    IN {c \in StagedView :
          /\ c.tagName = deepest.tagName
          /\ Satisfies(c, deepest.attributes)
          /\ Accepted(c, levels)}

\* the ancestor matched for level j on the walk that starts at ref for level i
RECURSIVE MatchedFor(_, _, _, _)
MatchedFor(j, i, ref, levels) ==
    LET matched == FirstAncestorWithTag(ref, levels[i].tagName)
    IN IF i = j THEN matched ELSE MatchedFor(j, i - 1, matched.parent, levels)

IdsOf(records) == [k \in 1..Len(records) |-> records[k].id]

NoDuplicate(ids) == \A i, j \in 1..Len(ids) : ids[i] = ids[j] => i = j

\* C23: the result of findDescendants with a filter is deduplicated by id:
\* each accepted candidate appears exactly once in its tag's list, and an
\* ancestor matched through several accepted candidates appears exactly once
\* in its tag's list.
C23_FindDescendantsDeduplicated ==
    query.method = "findDescendants" =>
       LET levels == filterToPath(query.input)
           n == Len(levels)
       IN /\ \A k \in 1..Len(answer) : NoDuplicate(IdsOf(answer[k].records))
          /\ \A c \in AcceptedCandidates :
                \E k \in 1..Len(AnswerFor(levels[n].tagName)) :
                   toRawRecord(AnswerFor(levels[n].tagName)[k]) = c
          /\ \A j \in 1..(n - 1) :
                RawRecords(AnswerFor(levels[j].tagName))
                   = {MatchedFor(j, n - 1, c.parent, levels) :
                        c \in AcceptedCandidates}

\* from Root, A > AAA_1 accepts AAA_1(6) and AAA_1(7), both through A(2),
\* which is listed once
C23_Witness ==
    /\ query.method = "findDescendants"
    /\ query.input = Nested(<<[tagName |-> "A", attributes |-> <<>>],
                              [tagName |-> "AAA_1", attributes |-> <<>>]>>)
    /\ focus.id = 1
    /\ log = <<>>
    /\ IdsOf(AnswerFor("AAA_1")) = <<6, 7>>
    /\ IdsOf(AnswerFor("A")) = <<2>>

\* C24: the result of findDescendants with a filter has exactly one key per
\* tag named anywhere in the filter chain and no other key; a filter tag for
\* which no record was accepted maps to an empty list.
C24_FindDescendantsKeys ==
    query.method = "findDescendants" =>
       LET tags == extractTags(query.input)
           keys == [k \in 1..Len(answer) |-> answer[k].tagName]
       IN /\ {keys[k] : k \in 1..Len(keys)} = {tags[k] : k \in 1..Len(tags)}
          /\ \A i, j \in 1..Len(keys) : keys[i] = keys[j] => i = j
          /\ AcceptedCandidates = {}
                => \A k \in 1..Len(answer) : answer[k].records = <<>>

\* from A(2), AA_2 > AAA_1 accepts nothing: both tags are keys of empty lists
C24_Witness ==
    /\ query.method = "findDescendants"
    /\ query.input = Nested(<<[tagName |-> "AA_2", attributes |-> <<>>],
                              [tagName |-> "AAA_1", attributes |-> <<>>]>>)
    /\ focus.id = 2
    /\ answer = <<[tagName |-> "AA_2", records |-> <<>>],
                  [tagName |-> "AAA_1", records |-> <<>>]>>

\* ------------------------------------------------------ getTree properties
\* every node of a tree, the root included
RECURSIVE NodesOf(_)
NodesOf(tree) ==
    {tree} \cup UNION {NodesOf(tree.tree[k]) : k \in 1..Len(tree.tree)}

NodesBelow(tree) == UNION {NodesOf(tree.tree[k]) : k \in 1..Len(tree.tree)}

IdsOfTree(tree) == {node.id : node \in NodesOf(tree)}

\* the record matches an exclude or include entry: tag and attributes
MatchesEntry(record, entry) ==
    /\ record.tagName = entry.tagName
    /\ Satisfies(record, entry.attributes)

StopsAt(record) ==
    \E k \in 1..Len(query.input.exclude) :
       /\ query.input.exclude[k].scope = "children"
       /\ MatchesEntry(record, query.input.exclude[k])

SelfExcluded(record) ==
    \E k \in 1..Len(query.input.exclude) :
       /\ query.input.exclude[k].scope \in {"self", "undefined"}
       /\ MatchesEntry(record, query.input.exclude[k])

\* the children a record has in the staged view, in the order of its children
StagedChildren(record) ==
    LET Present(ref) == LatestRecord(log, store, ref.id) # NoRecord
        refs == SelectSeq(record.children, Present)
    IN [k \in 1..Len(refs) |-> LatestRecord(log, store, refs[k].id)]

RawChildren(node) == [k \in 1..Len(node.tree) |-> toRawRecord(node.tree[k])]

\* C25: getTree with an exclude entry of scope "children" keeps every node
\* that matches the entry in the result with an empty tree, whatever children
\* the node has in the store or the staged log; with entries of that scope
\* only, a node that does not match is expanded normally: its tree holds all
\* its children.
C25_ExcludeChildrenStops ==
    query.method = "getTree" =>
       \A node \in NodesOf(answer) :
          /\ StopsAt(node) => node.tree = <<>>
          /\ ( /\ ~StopsAt(node)
               /\ query.input.include = NoInclude
               /\ query.input.unwrap = None
               /\ \A k \in 1..Len(query.input.exclude) :
                     query.input.exclude[k].scope = "children" )
                => RawChildren(node) = StagedChildren(node)

\* from Root with exclude [{AA_1, scope children}]: A(2) is expanded, the
\* AA_1 child staged below A, which has a staged child itself, is kept with an
\* empty tree like the persisted ones
C25_Witness ==
    /\ query.method = "getTree"
    /\ query.input = GetTreeParams(NoInclude,
                        <<ExcludeFilter("AA_1", <<>>, "children")>>, None)
    /\ focus.id = 1
    /\ log = QueryAfterAddChild.stagedOperations
    /\ IdsOfTree(answer) = {1, 2, 3, 4, 5, 8, 9}
    /\ \A node \in NodesOf(answer) :
          node.id \in {3, 4, 9} => node.children # <<>> /\ node.tree = <<>>

\* an ancestor-or-self of ref, below the focus, matches an exclude entry of
\* scope self
RECURSIVE ExcludedAbove(_)
ExcludedAbove(ref) ==
    LET record == LatestRecord(log, store, ref.id)
    IN IF ref = NoRef \/ record = NoRecord \/ ref = FocusRef THEN FALSE
       ELSE SelfExcluded(record) \/ ExcludedAbove(record.parent)

\* C26: getTree with an exclude entry of scope "self" (the default) removes
\* every matching node below the focus with its whole subtree, whether or not
\* it matches the include filter: no node below the focus of the result
\* matches such an entry or has an ancestor below the focus that does.
C26_ExcludeSelfRemoves ==
    query.method = "getTree" =>
       \A node \in NodesBelow(answer) :
          ~ExcludedAbove(Ref(node.id, node.tagName))

\* from A(2), AA_1(4) matches both include {AA_1} and exclude {AA_1, a = v2}:
\* it is absent with its child AAA_1(7), AA_1(3) is there with AAA_1(6)
C26_Witness ==
    /\ query.method = "getTree"
    /\ query.input = GetTreeParams(IncludeFilter("AA_1", <<>>, <<>>),
                        <<ExcludeFilter("AA_1", <<ExpectOne("a", "v2")>>,
                                        "self")>>, None)
    /\ focus.id = 2
    /\ log = <<>>
    /\ IdsOfTree(answer) = {2, 3, 6}

\* the branch of level a kept child is paired with
LevelBelow(child, level) ==
    LET matching == {k \in 1..Len(level.children) :
                        MatchesEntry(child, level.children[k])}
    IN IF matching = {} THEN NoInclude
       ELSE level.children[CHOOSE k \in matching : \A j \in matching : k <= j]

\* the children that appear below a record expanded under level
Appearing(record, level) ==
    LET Appears(child) ==
            /\ ~SelfExcluded(child)
            /\ level # NoInclude => MatchesEntry(child, level)
    IN SelectSeq(StagedChildren(record), Appears)

RECURSIVE Obeys(_, _)
Obeys(node, level) ==
    \/ StopsAt(node)
    \/ /\ RawChildren(node) = Appearing(node, level)
       /\ \A k \in 1..Len(node.tree) :
             Obeys(node.tree[k], LevelBelow(node.tree[k], level))

\* C27: when a node is expanded under an include filter level, a child of the
\* node appears in the result if and only if it is not excluded, its tag is
\* the level's tagName and its attributes satisfy the level's attributes;
\* when a node is expanded with no include filter, every non-excluded child
\* appears.
C27_IncludeKeepsMatching ==
    (query.method = "getTree" /\ query.input.unwrap = None) =>
       Obeys(answer, query.input.include)

\* from A(2) with include {AA_1, a in [v2, v3], b = v1}: of the three
\* children only AA_1(4) appears, and its child AAA_1(7), expanded with no
\* filter
C27_Witness ==
    /\ query.method = "getTree"
    /\ query.input
          = GetTreeParams(IncludeFilter("AA_1",
                             <<ExpectSome("a", <<"v2", "v3">>),
                               ExpectOne("b", "v1")>>, <<>>), <<>>, None)
    /\ focus.id = 2
    /\ log = <<>>
    /\ Len(focus.children) = 3
    /\ IdsOfTree(answer) = {2, 4, 7}

UnwrapSet ==
    LET unwrap == CHOOSE given \in query.input.unwrap : TRUE
    IN {unwrap[k] : k \in 1..Len(unwrap)}

\* the nodes below a tree in document order, each with the id of the node it
\* hangs under once the nodes with a tag of skipped are taken out
RECURSIVE Hanging(_, _, _)
Hanging(children, under, skipped) ==
    IF Len(children) = 0 THEN <<>>
    ELSE LET child == Head(children)
         IN (IF child.tagName \in skipped
             THEN Hanging(child.tree, under, skipped)
             ELSE <<[under |-> under,
                     node |-> [child EXCEPT !.tree = <<>>]]>>
                  \o Hanging(child.tree, child.id, skipped))
            \o Hanging(Tail(children), under, skipped)

\* C28: getTree with an unwrap set U returns the include/exclude tree in
\* which every node below the focus whose tag is in U is replaced, at its own
\* position among its siblings, by its children processed the same way: no
\* node below the focus has a tag in U, and the remaining nodes are unchanged,
\* in their document order, each under its nearest remaining ancestor.
C28_UnwrapPromotesChildren ==
    (query.method = "getTree" /\ query.input.unwrap # None) =>
       LET plain == getTree(Context, store,
                            [query.input EXCEPT !.unwrap = None])
       IN /\ \A node \in NodesBelow(answer) : node.tagName \notin UnwrapSet
          /\ [answer EXCEPT !.tree = <<>>] = [plain EXCEPT !.tree = <<>>]
          /\ Hanging(answer.tree, answer.id, {})
                = Hanging(plain.tree, plain.id, UnwrapSet)

\* from Root with U = {A}: Root -> A -> [AA_1, AA_1, AA_2] gives
\* Root.tree = [AA_1, AA_1, AA_2], the three subtrees as getTree builds them
\* below A
C28_Witness ==
    /\ query.method = "getTree"
    /\ query.input = GetTreeParams(NoInclude, <<>>, Some(<<"A">>))
    /\ focus.id = 1
    /\ log = <<>>
    /\ IdsOf(answer.tree) = <<3, 4, 5>>
    /\ answer.tree
          = getTree(Context, store, GetTreeParams(NoInclude, <<>>, None))
               .tree[1].tree

\* ----------------------------------------------- deepCloneChild properties
\* the nodes of a tree that are not skipped and lie under no skipped node, in
\* document order, each with the position among them of its tree parent (0
\* for the root of the tree)
RECURSIVE KeptFrom(_, _, _, _)
RECURSIVE KeptChildren(_, _, _, _)
KeptFrom(node, under, kept, skipped) ==
    IF node.id \in skipped THEN kept
    ELSE KeptChildren(node.tree, Len(kept) + 1,
                      Append(kept, [node |-> node, under |-> under]), skipped)

KeptChildren(children, under, kept, skipped) ==
    IF Len(children) = 0 THEN kept
    ELSE KeptChildren(Tail(children), under,
                      KeptFrom(Head(children), under, kept, skipped), skipped)

CreatedIn(operations) ==
    LET created == SelectSeq(operations, IsCreated)
    IN [k \in 1..Len(created) |-> created[k].newRecord]

KnownIds ==
    {id \in DOMAIN store : store[id] # NoRecord}
    \cup {elementId(log[k]) : k \in 1..Len(log)}

\* the clones, in their order, of the kept nodes whose tree parent is at
\* position under
ClonesUnder(under, kept, clones) ==
    LET Under(k) == kept[k].under = under
        positions == SortedIds({k \in 1..Len(kept) : Under(k)})
    IN [j \in 1..Len(positions) |->
           Ref(clones[positions[j]].id, clones[positions[j]].tagName)]

\* C29: deepCloneChild(record) stages, for every node of the tree that is not
\* skipped, exactly one new record created through addChild under the clone
\* of its tree parent (under the current focus for the root of the tree),
\* with a fresh id and the node's tagName, in the tree's child order; a node
\* the beforeClone hook answers shouldBeCloned = false for is not created,
\* nor is any node of its subtree.
C29_CloneCreatesKeptNodes ==
    [][query'.method = "deepCloneChild" =>
          LET kept == KeptFrom(query'.input.record, 0, <<>>,
                               query'.input.beforeClone.skipped)
              clones == CreatedIn(Appended)
              before == LatestRecord(log, store, focus.id)
          IN /\ LogKept
             /\ Len(clones) = Len(kept)
             /\ \A k \in 1..Len(clones) :
                   /\ clones[k].tagName = kept[k].node.tagName
                   /\ clones[k].id \notin KnownIds
                   /\ \A j \in 1..Len(clones) : clones[j].id = clones[k].id => j = k
                   /\ clones[k].parent
                         = IF kept[k].under = 0 THEN Ref(focus.id, focus.tagName)
                           ELSE Ref(clones[kept[k].under].id,
                                    clones[kept[k].under].tagName)
                   /\ LatestRecord(log', store, clones[k].id).children
                         = ClonesUnder(k, kept, clones)
             /\ LatestRecord(log', store, focus.id).children
                   = before.children \o ClonesUnder(0, kept, clones)]_vars

\* from Root with nothing staged, the tree A(2)[AA_1(3)[AAA_1(6)],
\* AA_1(4)[AAA_1(7)]] under a hook that skips AA_1(3): three records are
\* created, for A, AA_1(4) and AAA_1(7)
C29_Witness ==
    /\ query.method = "deepCloneChild"
    /\ query.input.record = TreeOfA
    /\ query.input.beforeClone.skipped = {3}
    /\ calls = 1
    /\ [k \in 1..Len(CreatedIn(log)) |-> CreatedIn(log)[k].tagName]
          = <<"A", "AA_1", "AAA_1">>
    /\ Len(log) = 6

\* C30: for every tree and every beforeClone hook, the chain deepCloneChild
\* returns is focused, with setFocus = false, on the record that was the focus
\* when it was called, in its latest staged state, and with setFocus = true on
\* the clone of the root of the tree.
C30_CloneFocus ==
    [][query'.method = "deepCloneChild" =>
          LET clones == CreatedIn(Appended)
          IN /\ settled' = "resolved"
             /\ IF query'.input.setFocus
                THEN /\ Len(clones) > 0
                     /\ focus'.id = clones[1].id
                     /\ toRawRecord(focus')
                           = LatestRecord(log', store, clones[1].id)
                ELSE /\ focus'.id = focus.id
                     /\ toRawRecord(focus')
                           = LatestRecord(log', store, focus.id)]_vars

\* --------------------------------------------- addChild with afterCreated
\* dialecteConfig.hooks.afterCreated, given by the statuses of the operations
\* it returns: a wrapper record created below the child, the child updated
\* with one more attribute, a store record deleted
AfterCreatedHooks ==
    { <<>>, <<"created">>, <<"updated">>, <<"deleted">>,
      <<"updated", "created">>, <<"deleted", "updated">>,
      <<"created", "updated", "deleted">> }

HookOperation(status, childRecord, parentRecord, id) ==
    CASE status = "created" ->
            CreatedOp(RawRecord(id, "AA_1", <<>>, "",
                                Ref(childRecord.id, childRecord.tagName), <<>>))
      [] status = "updated" ->
            UpdatedOp(childRecord,
                      [childRecord EXCEPT
                          !.attributes = Append(@, [name |-> "b", value |-> "v1"])])
      [] status = "deleted" -> DeletedOp(toRawRecord(parentRecord))

afterCreated(hook, childRecord, parentRecord, id) ==
    [k \in 1..Len(hook) |-> HookOperation(hook[k], childRecord, parentRecord, id)]

\* for (const operation of hookOperations)
RECURSIVE stageHookOperations(_, _)
stageHookOperations(stagedOperations, hookOperations) ==
    IF Len(hookOperations) = 0 THEN stagedOperations
    ELSE LET operation == Head(hookOperations)
             staged ==
                 IF operation.status = "created"
                 THEN addStagedOperation(stagedOperations, "created",
                                         operation.newRecord, NoRecord, NoRecord)
                 ELSE IF operation.status = "updated"
                 THEN addStagedOperation(stagedOperations, "updated", NoRecord,
                                         operation.oldRecord, operation.newRecord)
                 ELSE stagedOperations
         IN stageHookOperations(staged, Tail(hookOperations))

\* createAndStageChild under a configuration whose hooks hold afterCreated
createAndStageChildHooked(record, context, hook, hookId) ==
    LET staged == createAndStageChild(record, context)
        hookOperations ==
            afterCreated(hook, toRawRecord(staged.childRecord),
                         context.currentFocus, hookId)
    IN [staged EXCEPT
           !.stagedOperations = stageHookOperations(@, hookOperations)]

addChildHooked(context, id, tagName, attributes, value, setFocus, hook, hookId) ==
    LET standardizedRecord == standardizeRecord(id, tagName, attributes, value)
        staged == createAndStageChildHooked(standardizedRecord, context, hook,
                                            hookId)
    IN IF setFocus
       THEN Resolved(staged.childRecord, staged.stagedOperations)
       ELSE Resolved(staged.updatedParent, staged.stagedOperations)

UsesId(hook) == \E k \in 1..Len(hook) : hook[k] = "created"
IdsUsed(hook) == IF UsesId(hook) THEN 2 ELSE 1

AddChildWithHook(tagName, attributes, setFocus, hook) ==
    /\ settled = "resolved"
    /\ calls < MaxCalls
    /\ calls' = calls + 1
    /\ tagName \in ChildrenOf(focus.tagName)
    /\ used + IdsUsed(hook) <= MaxFresh
    /\ LET result == addChildHooked(Context, FreshId(used + 1), tagName,
                                    attributes, NoValue, setFocus, hook,
                                    FreshId(used + 2))
       IN /\ focus' = result.currentFocus
          /\ log' = result.stagedOperations
          /\ settled' = IF result.ok THEN "resolved" ELSE "rejected"
          /\ error' = result.error
    /\ used' = used + IdsUsed(hook)
    /\ query' = [method |-> "addChild",
                 input |-> [id |-> FreshId(used + 1), tagName |-> tagName,
                            afterCreated |-> hook, hookId |-> FreshId(used + 2)]]
    /\ commitError' = NotCommit
    /\ UNCHANGED <<store, answer, mergeVars>>

NextHook ==
    \/ \E tagName \in Tags, attributes \in AddChildAttributes,
          setFocus \in BOOLEAN, hook \in AfterCreatedHooks :
          AddChildWithHook(tagName, attributes, setFocus, hook)
    \/ \E tagName \in Tags, id \in GoToElementIds : GoToElement(tagName, id)

SpecHook == Init /\ [][NextHook]_vars

\* --------------------------------------- delete and the handles before it
\* commit() called on the handle a rejected call was made on: that handle's
\* context resolved, and it holds the stagedOperations array the rejected
\* call pushed onto
CommitOnHandleBefore(failAt) ==
    /\ settled = "rejected"
    /\ LET result == commit(Resolved(NoRecord, log), store, failAt)
       IN /\ store' = result.table
          /\ log' = result.remaining
          /\ commitError' = result.error
    /\ UNCHANGED <<focus, settled, error, used, calls, mergeVars, queryVars>>

NextDelete ==
    \/ \E tagName \in Tags, id \in GoToElementIds : GoToElement(tagName, id)
    \/ \E tagName \in Tags, attributes \in AddChildAttributes,
          setFocus \in BOOLEAN :
          AddChild(tagName, attributes, NoValue, setFocus)
    \/ Delete
    \/ \E failAt \in FailPoints : Commit(failAt)
    \/ \E failAt \in FailPoints : CommitOnHandleBefore(failAt)

SpecDelete == Init /\ [][NextDelete]_vars

\* ------------------------------------------- getContext and what it hands out
\* The caller holds the contexts getContext returned by reference. heap[k] is
\* the k-th context object allocated for the caller; reference 0 is the
\* chain's own context (focus and log). answer.returned lists, in the order
\* of the calls, the references getContext returned.
NoContexts == [heap |-> <<>>, returned |-> <<>>]

ChainContext(chainFocus, chainLog) ==
    [currentFocus |-> chainFocus, stagedOperations |-> chainLog]

ReadContext(heap, reference, chainFocus, chainLog) ==
    IF reference = 0 THEN ChainContext(chainFocus, chainLog)
    ELSE heap[reference]

\* an object that shares nothing with the one given
structuredCloneShares(heap, reference, value) ==
    [heap |-> heap, reference |-> reference]

structuredClone(heap, reference, value) ==
    [heap |-> Append(heap, value), reference |-> Len(heap) + 1]

ContextChanges == {"stagedOperations.length = 0", "currentFocus.value = 'changed'"}

ChangedContext(context, change) ==
    IF change = "stagedOperations.length = 0"
    THEN [context EXCEPT !.stagedOperations = <<>>]
    ELSE [context EXCEPT !.currentFocus.value = "changed"]

InitContext ==
    /\ store \in InitialStores
    /\ store[2] # NoRecord
    /\ focus = fromRoot(store).currentFocus
    /\ log = <<>>
    /\ settled = "resolved"
    /\ error = ""
    /\ used = 0
    /\ calls = 0
    /\ commitError = NotCommit
    /\ mIn = <<>>
    /\ mOut = NoMerge
    /\ query = NoQuery
    /\ answer = NoContexts

\* const context = await contextPromise; return structuredClone(context)
ReturnContext ==
    /\ settled = "resolved"
    /\ Len(answer.returned) < MaxContexts
    /\ LET clone == structuredClone(answer.heap, 0, getContext(Context))
       IN answer' = [heap |-> clone.heap,
                     returned |-> Append(answer.returned, clone.reference)]
    /\ query' = [method |-> "getContext"]
    /\ UNCHANGED <<store, focus, log, settled, error, used, calls, commitError,
                   mergeVars>>

\* the caller writes into the k-th context it was handed
ChangeReturned(k, change) ==
    /\ k \in 1..Len(answer.returned)
    /\ LET reference == answer.returned[k]
           context == ReadContext(answer.heap, reference, focus, log)
           changed == ChangedContext(context, change)
       IN /\ changed # context
          /\ IF reference = 0
             THEN /\ focus' = changed.currentFocus
                  /\ log' = changed.stagedOperations
                  /\ answer' = answer
             ELSE /\ answer' = [answer EXCEPT !.heap[reference] = changed]
                  /\ UNCHANGED <<focus, log>>
    /\ query' = [method |-> "change", input |-> k]
    /\ UNCHANGED <<store, settled, error, used, calls, commitError, mergeVars>>

\* a commit that succeeds or whose bulkPut the store makes fail
ContextFailPoints == {"none", "bulkPut"}

NextContext ==
    \/ ReturnContext
    \/ \E k \in 1..MaxContexts, change \in ContextChanges :
          ChangeReturned(k, change)
    \/ \E tagName \in Tags, attributes \in AddChildAttributes,
          setFocus \in BOOLEAN :
          AddChild(tagName, attributes, NoValue, setFocus)
    \/ \E input \in UpdateInputs : Update(input.attributes, input.value)
    \/ \E failAt \in ContextFailPoints : Commit(failAt)

SpecContext == InitContext /\ [][NextContext]_vars

\* ------------------------------------------------ the converters on their own
\* records of the three variants handed to toRawRecord, toChainRecord and
\* toTreeRecord, and a second conversion applied to what the first returned
ConvertRawRecords ==
    { RawRecord(2, tagName, attributes, value, parent, children) :
        tagName \in {"A", "AA_1"},
        attributes \in {<<>>, <<[name |-> "a", value |-> "v1"]>>},
        value \in {"", "text"},
        parent \in {NoRef, Ref(1, "Root")},
        children \in {<<>>, <<Ref(3, "AA_1")>>} }

ConvertChainRecords ==
    { toChainRecord(record, status) :
        record \in ConvertRawRecords, status \in {"unchanged", "created"} }

ConvertTrees ==
    { <<>>,
      <<toTreeRecord(RawRecord(3, "AA_1", <<>>, "", Ref(2, "A"), <<>>),
                     NoStatus, None)>> }

ConvertTreeRecords ==
    { toTreeRecord(record, NoStatus, Some(tree)) :
        record \in ConvertChainRecords, tree \in ConvertTrees }

ConvertRecords ==
    ConvertRawRecords \cup ConvertChainRecords \cup ConvertTreeRecords

ConvertMethods == {"toRawRecord", "toChainRecord", "toTreeRecord"}

ConvertParams ==
    { [record |-> record, status |-> status, tree |-> tree] :
        record \in ConvertRecords,
        status \in {NoStatus, "updated"},
        tree \in {None} \cup {Some(given) : given \in ConvertTrees} }

Converted(method, params) ==
    CASE method = "toRawRecord" -> toRawRecord(params.record)
      [] method = "toChainRecord" -> toChainRecord(params.record, params.status)
      [] method = "toTreeRecord" ->
            toTreeRecord(params.record, params.status, params.tree)

InitConvert ==
    /\ store \in InitialStores
    /\ store[2] = NoRecord
    /\ focus = toChainRecord(store[1], NoStatus)
    /\ log = <<>>
    /\ settled = "resolved"
    /\ error = ""
    /\ used = 0
    /\ calls = 0
    /\ commitError = NotCommit
    /\ mIn = <<>>
    /\ mOut = NoMerge
    /\ query = NoQuery
    /\ answer = NoAnswer

\* a converter called on a record; toRawRecord takes the record alone
Convert(method, params) ==
    /\ query.method = "none"
    /\ method = "toRawRecord" => (params.status = NoStatus /\ params.tree = None)
    /\ method = "toChainRecord" => params.tree = None
    /\ query' = [method |-> method, input |-> params, first |-> NoQuery]
    /\ answer' = Converted(method, params)
    /\ UNCHANGED <<store, focus, log, settled, error, used, calls, commitError,
                   mergeVars>>

\* a converter called, with the record alone, on what the call before returned
ConvertAnswer(method) ==
    /\ query.method \in ConvertMethods
    /\ query.first = NoQuery
    /\ LET params == [record |-> answer, status |-> NoStatus, tree |-> None]
       IN /\ query' = [method |-> method, input |-> params,
                       first |-> [method |-> query.method,
                                  input |-> query.input]]
          /\ answer' = Converted(method, params)
    /\ UNCHANGED <<store, focus, log, settled, error, used, calls, commitError,
                   mergeVars>>

NextConvert ==
    \/ \E method \in ConvertMethods, params \in ConvertParams :
          Convert(method, params)
    \/ \E method \in ConvertMethods : ConvertAnswer(method)

SpecConvert == InitConvert /\ [][NextConvert]_vars

\* ------------------------------------------------------ converter properties
RawFields ==
    {"id", "tagName", "namespace", "attributes", "value", "parent", "children"}
IsRawVariant(record) == DOMAIN record = RawFields
IsChainVariant(record) == DOMAIN record = RawFields \cup {"status"}
IsTreeVariant(record) == DOMAIN record = RawFields \cup {"status", "tree"}
Alone(params) == params.status = NoStatus /\ params.tree = None
KeepsFields(from, to) == \A field \in DOMAIN from : to[field] = from[field]

Returned(k) == ReadContext(answer.heap, answer.returned[k], focus, log)
ReturnedAfter(k) == ReadContext(answer'.heap, answer'.returned[k], focus', log')
\* every call on the chain counts in calls or settles commitError
ChainStep == calls' # calls \/ commitError' # commitError \/ store' # store
CallerStep == query'.method = "change" /\ ~ChainStep
ReturnStep == Len(answer'.returned) # Len(answer.returned)

\* C32: getContext returns a deep copy of the chain's context. The context a
\* call returns equals the chain's context and is an object of its own; no
\* later call on the chain (mutation, commit) and no change the caller makes
\* to another returned context alters a returned context, and no change the
\* caller makes to a returned context alters the chain's own context.
C32_GetContextDeepCopy ==
    [][ /\ ReturnStep =>
            LET last == Len(answer'.returned)
            IN /\ last = Len(answer.returned) + 1
               /\ ReturnedAfter(last) = ChainContext(focus, log)
               /\ ChainContext(focus', log') = ChainContext(focus, log)
               /\ answer'.returned[last] # 0
               /\ \A k \in 1..Len(answer.returned) :
                     answer.returned[k] # answer'.returned[last]
        /\ \A k \in 1..Len(answer.returned) :
              ~(CallerStep /\ query'.input = k) => ReturnedAfter(k) = Returned(k)
        /\ CallerStep => ChainContext(focus', log') = ChainContext(focus, log)
      ]_vars

\* two contexts returned at the same point of a chain that had staged
\* operations; the caller emptied the log of the first, the chain went on
\* and committed
C32_Witness ==
    /\ Len(answer.returned) = 2
    /\ query = [method |-> "change", input |-> 1]
    /\ Len(Returned(2).stagedOperations) = 2
    /\ Returned(1).stagedOperations = <<>>
    /\ Returned(2).stagedOperations # <<>>
    /\ Returned(1).currentFocus = Returned(2).currentFocus
    /\ Len(log) > Len(Returned(2).stagedOperations)
    /\ commitError = NoError

\* ---------------------------------------------------- afterCreated properties
\* C33: with an afterCreated hook configured, addChild appends every
\* operation the hook returns - created, updated or deleted - to the staged
\* log after the child's created and the parent's updated operation, in the
\* order returned.
C33_HookOperationsAppended ==
    [][(query'.method = "addChild" /\ calls' = calls + 1) =>
          /\ LogKept
          /\ Len(Appended) >= 2
          /\ Appended[1].status = "created"
          /\ Appended[1].newRecord.id = query'.input.id
          /\ Appended[2] = UpdatedOp(toRawRecord(focus),
                                     [toRawRecord(focus) EXCEPT
                                         !.children = Append(@,
                                             Ref(query'.input.id,
                                                 query'.input.tagName))])
          /\ SubSeq(Appended, 3, Len(Appended))
                = afterCreated(query'.input.afterCreated, Appended[1].newRecord,
                               toRawRecord(focus), query'.input.hookId)]_vars

\* ---------------------------------------------------------- failed deletes
DeleteErrors == {"Cannot delete root element", "Parent record not found"}

\* C34: a delete that fails (the focus is the root, or the parent cannot be
\* resolved) appends nothing to the staged log, so the handles obtained
\* before it still see the log they had, and no sequence of chain calls and
\* commits removes the root record from the store.
C34_FailedDeleteStagesNothing ==
    /\ [][(settled = "resolved" /\ settled' = "rejected" /\ error' \in DeleteErrors)
             => log' = log]_vars
    /\ [](\E id \in DOMAIN store :
             store[id] # NoRecord /\ store[id].tagName = rootElementName)

\* ------------------------------------------- singletons focused without id
OperationRecord(operation) ==
    IF operation.status = "deleted" THEN operation.oldRecord
    ELSE operation.newRecord

\* ids of the records of a tag, in the store and in the staged log
IdsWithTag(tagName) ==
    dbIdsWithTag(store, tagName)
    \cup {OperationRecord(log[k]).id :
             k \in {j \in 1..Len(log) : OperationRecord(log[j]).tagName = tagName}}

\* C35: within one chain, goToElement on a singleton tag called without id
\* reads through the chain's own staged changes: when the singleton record has
\* a staged created or updated operation the focus is its latest staged
\* newRecord, not the older store row, and when its latest staged operation is
\* deleted the call fails.
C35_SingletonReadsStaged ==
    settled = "resolved" =>
       \A tagName \in singletonElements :
          \A id \in IdsWithTag(tagName) :
             LET result == goToElement(Context, store, tagName, NoId)
                 i == LastIndexOf(log, id)
             IN (IdsWithTag(tagName) = {id} /\ i # 0) =>
                   IF log[i].status = "deleted" THEN ~result.ok
                   ELSE /\ result.ok
                        /\ toRawRecord(result.currentFocus) = log[i].newRecord

\* ------------------------------------------------- nested include branches
\* every child of node matches one of the branches, and so on below it
RECURSIVE NarrowedBy(_, _)
NarrowedBy(node, branches) ==
    \A k \in 1..Len(node.tree) :
       \E j \in 1..Len(branches) :
          /\ MatchesEntry(toRawRecord(node.tree[k]), branches[j])
          /\ Len(branches[j].children) > 0
                => NarrowedBy(node.tree[k], branches[j].children)

\* C36: with an include filter {tagName: T, children: [B1..Bk]} the nested
\* branches filter the children of the kept T nodes: a child of a kept T node
\* appears in the result only if it matches one of B1..Bk (tag and
\* attributes), and this narrowing repeats at every nesting level.
C36_NestedBranchesNarrow ==
    ( /\ query.method = "getTree"
      /\ query.input.unwrap = None
      /\ query.input.include # NoInclude
      /\ Len(query.input.include.children) > 0 ) =>
       \A k \in 1..Len(answer.tree) :
          NarrowedBy(answer.tree[k], query.input.include.children)

\* ------------------------------------------------ histories in the staged log
\* the position of the operation before log[k] on the same id, 0 when none
PreviousOn(k) ==
    LET earlier == {j \in 1..(k - 1) : elementId(log[j]) = elementId(log[k])}
    IN IF earlier = {} THEN 0
       ELSE CHOOSE j \in earlier : \A i \in earlier : i <= j

\* C37: in the staged log of a chain built by successive calls the operations
\* on each id form a well-formed history: a created operation is the first
\* operation on its id, no operation on an id follows a deleted operation on
\* it, and the oldRecord of every updated or deleted operation is the
\* newRecord of the previous operation on the id, or the row the imported
\* store holds for the id when there is none.
C37_WellFormedHistories ==
    \A k \in 1..Len(log) :
       LET previous == PreviousOn(k)
       IN /\ log[k].status = "created" => previous = 0
          /\ previous # 0 => log[previous].status # "deleted"
          /\ log[k].status \in {"updated", "deleted"} =>
                IF previous # 0
                THEN log[k].oldRecord = log[previous].newRecord
                ELSE \E table \in InitialStores :
                        table[elementId(log[k])] = log[k].oldRecord

\* ------------------------------------------- the staged view and the commit
\* the rows of a tag in a table
RowsWithTag(table, tagName) == {table[id] : id \in dbIdsWithTag(table, tagName)}

\* C38: the staged read view agrees with what commit will write: for every
\* staged log reachable through chain calls and every tag, fetchRecords over
\* the store and the log returns exactly the records of the tag the store
\* holds once the log is committed (same ids, same content), and getRecord
\* returns a record for an id exactly when the store holds the id after the
\* commit.
C38_StagedViewIsCommitted ==
    LET result == commit(Resolved(focus, log), store, "none")
    IN result.ok =>
          /\ \A tagName \in Tags :
                LET records == fetchRecords(tagName, log, store)
                IN /\ RawRecords(records) = RowsWithTag(result.table, tagName)
                   /\ Cardinality(RawRecords(records)) = Len(records)
          /\ \A id \in Ids :
                (\E tagName \in Tags :
                    getRecord(id, tagName, log, store).kind = "found")
                   <=> result.table[id] # NoRecord

\* ------------------------------------------ findDescendants, filter or not
\* DESCENDANTS of the configuration: every tag below a tag in the CHILDREN
\* graph, sorted
RECURSIVE computeDescendants(_)
computeDescendants(tagName) ==
    ChildrenOf(tagName)
    \cup UNION {computeDescendants(child) : child \in ChildrenOf(tagName)}

descendants(tagName) ==
    LET listed(name) == name \in computeDescendants(tagName)
    IN SelectSeq(<<"A", "AA_1", "Root">>, listed)

flattenTreeWithRoot(tree) == <<tree>>

\* every node below the root of the tree, a node before its own children
RECURSIVE flattenTree(_)
flattenTree(tree) ==
    LET F[k \in 0..Len(tree.tree)] ==
            IF k = 0 THEN <<>>
            ELSE F[k - 1] \o <<tree.tree[k]>> \o flattenTree(tree.tree[k])
    IN F[Len(tree.tree)]

\* one key per possible type, the current element first; a record whose tag
\* is no key is left out
findAll(context, table, currentElement) ==
    LET tree == getTree(context, table, GetTreeParams(NoInclude, <<>>, None))
        allPossibleTypes ==
            SetOfTags(<<currentElement>> \o descendants(currentElement))
        result(records) ==
            [k \in 1..Len(allPossibleTypes) |->
                LET hasType(record) == record.tagName = allPossibleTypes[k]
                IN [tagName |-> allPossibleTypes[k],
                    records |-> SelectSeq(records, hasType)]]
    IN IF "tree" \in DOMAIN tree THEN result(flattenTree(tree)) ELSE tree

findDescendants(context, table, filter) ==
    IF filter = NoFilter
    THEN findAll(context, table, context.currentFocus.tagName)
    ELSE findFiltered(context, table, filter)

\* what the promise of findDescendants rejects with: "" when it resolves
findDescendantsRejection(context, table, filter) ==
    LET tree == getTree(context, table, GetTreeParams(NoInclude, <<>>, None))
        path == filterToPath(filter)
        candidates == findByAttributes(context, table, path[Len(path)].tagName,
                                       path[Len(path)].attributes)
        results == [k \in 1..Len(candidates) |->
                      validate(candidates[k], context.currentFocus, context,
                               table, SubSeq(path, 1, Len(path) - 1))]
        thrown == {k \in 1..Len(candidates) : results[k].thrown # ""}
    IN IF filter = NoFilter
       THEN IF "tree" \in DOMAIN tree THEN "" ELSE tree.message
       ELSE IF thrown = {} THEN ""
       ELSE results[CHOOSE k \in thrown : \A j \in thrown : k <= j].thrown

\* the settled promise: the grouped records, or the rejection
Descendants(context, table, filter) ==
    LET message == findDescendantsRejection(context, table, filter)
    IN IF message # ""
       THEN [kind |-> "rejected", message |-> message, records |-> <<>>]
       ELSE [kind |-> "resolved", message |-> "",
             records |-> findDescendants(context, table, filter)]

DescendantsFilters ==
    { NoFilter,
      DescendantsFilter("A", <<>>, NoFilter),
      DescendantsFilter("AA_1", <<>>, NoFilter),
      DescendantsFilter("AA_1", <<ExpectOne("a", "v2")>>, NoFilter),
      DescendantsFilter("A", <<>>, DescendantsFilter("AA_1", <<>>, NoFilter)) }

\* findDescendants is called on the chain's latest handle, at any point of
\* the chain; the chain is left as it is
FindDescendantsOnChain(filter) ==
    /\ settled = "resolved"
    /\ query' = [method |-> "findDescendants", input |-> filter]
    /\ answer' = Descendants(Context, store, filter)
    /\ UNCHANGED <<store, focus, log, settled, error, used, calls, commitError,
                   mergeVars>>

NextDescendants ==
    \/ \E tagName \in Tags, id \in GoToElementIds : GoToElement(tagName, id)
    \/ \E tagName \in Tags, attributes \in AddChildAttributes,
          setFocus \in BOOLEAN :
          AddChild(tagName, attributes, NoValue, setFocus)
    \/ \E input \in UpdateInputs : Update(input.attributes, input.value)
    \/ Delete
    \/ \E filter \in DescendantsFilters : FindDescendantsOnChain(filter)

SpecDescendants == Init /\ [][NextDescendants]_vars

\* --------------------------------------------- findDescendants: the result
\* every record of the settled answer
AnswerRecords ==
    UNION { {answer.records[k].records[j] :
               j \in 1..Len(answer.records[k].records)} :
            k \in 1..Len(answer.records) }

\* the answer is the one the call gives on the chain as it is now
AnswersNow ==
    /\ settled = "resolved"
    /\ query.method = "findDescendants"
    /\ answer = Descendants(Context, store, query.input)

\* C39: every record returned by findDescendants, with or without a filter,
\* is a strict descendant of the current focus in the staged view: it is a
\* record of the view, following its parent references reaches the focus,
\* and it is not the focus record itself.
C39_DescendantsBelowFocus ==
    AnswersNow /\ answer.kind = "resolved" =>
       \A record \in AnswerRecords :
          /\ record.id # focus.id
          /\ toRawRecord(record) \in StagedView
          /\ FocusIsAncestor(record.parent)

\* from Root, after a child was added under A(2): findDescendants() returns
\* A(2) and, below it, AA_1(3) and the new AA_1(4)
C39_Witness ==
    /\ AnswersNow
    /\ query.input = NoFilter
    /\ focus.id = 1
    /\ {record.id : record \in AnswerRecords} = {2, 3, 4}
    /\ \E record \in AnswerRecords :
          record.id = 4 /\ record.parent = Ref(2, "A")

\* ------------------------------------------- update: the attribute list
NamesIn(attributesArray) ==
    [k \in 1..Len(attributesArray) |-> attributesArray[k].name]

\* C40: after update the focus's attribute list holds no two attributes with
\* the same name, and the attributes that were already on the record keep
\* their positions in the list: an attribute whose value is replaced stays
\* where it was, and only attributes new to the record are appended at the
\* end.
C40_UpdateKeepsPositions ==
    [][\A attributes \in UpdateAttributes, value \in UpdateValues :
          Update(attributes, value) =>
             /\ NoDuplicate(NamesIn(focus'.attributes))
             /\ Len(focus'.attributes) >= Len(focus.attributes)
             /\ SubSeq(NamesIn(focus'.attributes), 1, Len(focus.attributes))
                   = NamesIn(focus.attributes)]_vars

====
